---- MODULE Spec2Model ----
(***************************************************************************)
(* MatchHub: the flat-file stores (training sessions, pre-match           *)
(* submissions, observations, scrape caches) and the Streamlit session    *)
(* trainer page that drives the session store.                            *)
(*                                                                         *)
(* Strings that the code formats into file names are sequences of tokens  *)
(* (a token is a word or a single separator character), so that the       *)
(* replace()/lower()/strip() calls and the f-string separators are        *)
(* computed and not assumed to be injective.  A dict is a function whose  *)
(* DOMAIN is its key set ({} is the empty function), a list is a sequence, *)
(* a directory of JSON files is a function from file name to content.     *)
(***************************************************************************)
EXTENDS Integers, Sequences, FiniteSets, TLC

(***************************************************************************)
(* Bounds of the model.                                                    *)
(***************************************************************************)
\* datetime.now() is a counter that advances on every write; no write
\* happens once it has reached MaxClock.
MaxClock == 4

\* The longest list of coaching rules a call is given.
MaxRules == 2

\* Python's None (a record, so that it compares with dicts and lists).
None == [None |-> TRUE]
\* The empty dict {}.
EmptyDict == <<>>

(***************************************************************************)
(* String helpers                                                          *)
(***************************************************************************)
\* str.replace(a, b) for a one-token pattern a.
Replace(s, a, b) == [i \in 1..Len(s) |-> IF s[i] = a THEN b ELSE s[i]]

(***************************************************************************)
(* academy/sessions.py                                                     *)
(***************************************************************************)
\* The f-string of create_session line 21.
SessionId(date, home, away, user, module_id, drill_id) ==
    <<date, "_">> \o Replace(home, " ", "_") \o <<"_", "vs", "_">>
        \o Replace(away, " ", "_") \o <<"_", user, "_", module_id, "_", drill_id>>

\* open(filepath, "w") + json.dump: the file is created or replaced whole.
WriteFile(dir, name, content) ==
    [f \in DOMAIN dir \cup {name} |-> IF f = name THEN content ELSE dir[f]]

\* The dict built by create_session (lines 23-44); t is datetime.now().
NewSession(user, date, league, home, away, module_id, drill_id, goal, confidence, t) ==
    [session_id |-> SessionId(date, home, away, user, module_id, drill_id),
     user       |-> user,
     game       |-> [date |-> date, league |-> league, home |-> home, away |-> away],
     module_id  |-> module_id,
     drill_id   |-> drill_id,
     pre        |-> [goal |-> goal, confidence |-> confidence, timestamp |-> t],
     checkins   |-> <<>>,
     post       |-> EmptyDict,
     state      |-> "active",
     created_at |-> t,
     updated_at |-> t]

\* A create_session that refuses to replace an existing session file.
create_session_keep(dir, session) ==
    IF session.session_id \in DOMAIN dir THEN dir
    ELSE WriteFile(dir, session.session_id, session)

\* create_session lines 46-51: the session file is written under its id.
create_session(dir, session) == WriteFile(dir, session.session_id, session)

\* An exception leaves the call (open() of a missing file, json.load of an
\* unreadable one).
Raise == [raise |-> TRUE]

\* A file that json.load cannot parse.
Corrupt == [corrupt |-> TRUE]

\* json.load of a stored content.
JsonLoad(content) == IF content = Corrupt THEN Raise ELSE content

\* A load_session without the exists() check: open() raises.
load_session_nocheck(dir, session_id) ==
    IF session_id \notin DOMAIN dir THEN Raise ELSE dir[session_id]

load_session(dir, session_id) ==
    IF session_id \notin DOMAIN dir THEN None ELSE dir[session_id]

save_session(dir, session, t) ==
    WriteFile(dir, session.session_id, [session EXCEPT !.updated_at = t])

\* An add_checkin that replaces the check-in of the same phase.
add_checkin_replace(session, phase, answers, feedback, next_task, t) ==
    [session EXCEPT !.checkins =
        SelectSeq(@, LAMBDA c : c.phase # phase)
            \o <<[phase |-> phase, timestamp |-> t, answers |-> answers,
                  feedback |-> feedback, next_task |-> next_task]>>]

add_checkin(session, phase, answers, feedback, next_task, t) ==
    [session EXCEPT !.checkins =
        Append(@, [phase |-> phase, timestamp |-> t, answers |-> answers,
                   feedback |-> feedback, next_task |-> next_task])]

\* A complete_session that closes the session and empties its check-in list.
complete_session_no_checkins(session, summary, unclear, next_module, helpfulness, t) ==
    [session EXCEPT
        !.post = [summary |-> summary, unclear |-> unclear,
                  next_module |-> next_module, helpfulness |-> helpfulness,
                  timestamp |-> t],
        !.checkins = <<>>,
        !.state = "done"]

\* A complete_session that writes the POST block and leaves the state.
complete_session_stays_active(session, summary, unclear, next_module, helpfulness, t) ==
    [session EXCEPT
        !.post = [summary |-> summary, unclear |-> unclear,
                  next_module |-> next_module, helpfulness |-> helpfulness,
                  timestamp |-> t]]

complete_session(session, summary, unclear, next_module, helpfulness, t) ==
    [session EXCEPT
        !.post = [summary |-> summary, unclear |-> unclear,
                  next_module |-> next_module, helpfulness |-> helpfulness,
                  timestamp |-> t],
        !.state = "done"]

\* Insertion of x into a list sorted by created_at descending, behind the
\* entries with an equal key (list.sort is stable).
RECURSIVE InsertDesc(_, _)
InsertDesc(x, s) ==
    IF s = <<>> THEN <<x>>
    ELSE IF Head(s).created_at >= x.created_at THEN <<Head(s)>> \o InsertDesc(x, Tail(s))
    ELSE <<x>> \o s

\* sessions.sort(key=created_at, reverse=True) of the files listed in `names`.
RECURSIVE SortDesc(_)
SortDesc(s) == IF s = <<>> THEN <<>> ELSE InsertDesc(s[Len(s)], SortDesc(SubSeq(s, 1, Len(s) - 1)))

\* Some enumeration of a finite set (glob() returns the files in any order).
RECURSIVE SetToSeq(_)
SetToSeq(S) == IF S = {} THEN <<>> ELSE LET x == CHOOSE y \in S : TRUE IN <<x>> \o SetToSeq(S \ {x})

\* `if user and ...`: a filter is applied only when it is truthy; the absent
\* filter (None) and the empty string are both written "".
NoFilter == ""
Truthy(v) == v # ""

\* A list_sessions that ignores the stored state's owner.
list_sessions_nofilter(dirExists, dir, user, module_id) ==
    IF ~dirExists THEN <<>>
    ELSE SortDesc(SetToSeq({dir[f] : f \in {g \in DOMAIN dir : JsonLoad(dir[g]) # Raise}}))

\* A file that json.load cannot parse raises inside the try and is skipped.
list_sessions(dirExists, dir, user, module_id) ==
    IF ~dirExists THEN <<>>
    ELSE SortDesc(SetToSeq({dir[f] : f \in {g \in DOMAIN dir :
            /\ JsonLoad(dir[g]) # Raise
            /\ ~(Truthy(user) /\ dir[g].user # user)
            /\ ~(Truthy(module_id) /\ dir[g].module_id # module_id)}}))

\* A get_active_session that returns the oldest active session.
get_active_session_oldest(dirExists, dir, user) ==
    LET sessions == list_sessions(dirExists, dir, user, NoFilter)
        act == SelectSeq(sessions, LAMBDA s : s.state = "active")
    IN  IF act = <<>> THEN None ELSE act[Len(act)]

get_active_session(dirExists, dir, user) ==
    LET sessions == list_sessions(dirExists, dir, user, NoFilter)
        act == SelectSeq(sessions, LAMBDA s : s.state = "active")
    IN  IF act = <<>> THEN None ELSE Head(act)

(***************************************************************************)
(* The curriculum file (data/curriculum.json is not part of the sources;   *)
(* this is the tree the loaders walk: tracks -> modules -> drills).        *)
(***************************************************************************)
Phases == <<"PRE", "P1", "P2", "P3">>

DrillD1 ==
    [id |-> "A1_D1", title |-> "Dreiecke", drill_type |-> "period_checkin",
     config |-> [questions |-> <<[id |-> "triangle_rating", type |-> "slider",
                                  user_filter |-> {}]>>,
                 coaching_rules |->
                   <<[condition |-> [field |-> "triangle_rating", operator |-> "<=", value |-> 2],
                      feedback |-> <<"Dreiecke", "instabil">>,
                      next_task |-> <<"Achte", "in", "P", "{next_period}", "auf", "Center">>]>>]]

DrillQ1 ==
    [id |-> "A1_Q1", title |-> "Quiz", drill_type |-> "micro_quiz",
     config |-> [questions |-> <<[id |-> "q1", correct |-> 1]>>, time_limit |-> 60]]

\* A drill whose drill_type has no renderer, and a check-in without questions.
DrillV1 ==
    [id |-> "A3_V1", title |-> "Video", drill_type |-> "video_review",
     config |-> [questions |-> <<[id |-> "q1", correct |-> 1]>>]]

DrillE1 ==
    [id |-> "A3_E1", title |-> "Leer", drill_type |-> "period_checkin",
     config |-> [questions |-> <<>>, coaching_rules |-> <<>>]]

Curriculum ==
    [tracks |-> <<[id |-> "A", title |-> "Rollen",
                   modules |-> <<[id |-> "A1", title |-> "Center", drills |-> <<DrillD1, DrillQ1>>],
                                 [id |-> "A2", title |-> "Winger", drills |-> <<>>],
                                 [id |-> "A3", title |-> "Verteidiger",
                                  drills |-> <<DrillV1, DrillE1>>]>>]>>]

\* module_id[0]
FirstChar(module_id) ==
    CASE module_id = "A1" -> "A" [] module_id = "A2" -> "A" [] module_id = "A3" -> "A"
      [] OTHER -> "?"

\* The first element of a list that satisfies P, or None.
First(s, P(_)) == LET m == SelectSeq(s, P) IN IF m = <<>> THEN None ELSE Head(m)

get_track(curriculum, track_id) == First(curriculum.tracks, LAMBDA t : t.id = track_id)

get_module(curriculum, module_id) ==
    LET track == get_track(curriculum, FirstChar(module_id))
    IN  IF track = None THEN None ELSE First(track.modules, LAMBDA m : m.id = module_id)

get_drill(curriculum, module_id, drill_id) ==
    LET module == get_module(curriculum, module_id)
    IN  IF module = None THEN None ELSE First(module.drills, LAMBDA d : d.id = drill_id)

RECURSIVE Flatten(_)
Flatten(ss) == IF ss = <<>> THEN <<>> ELSE Head(ss) \o Flatten(Tail(ss))

list_modules(curriculum) ==
    Flatten([i \in 1..Len(curriculum.tracks) |->
        [j \in 1..Len(curriculum.tracks[i].modules) |->
            [track_id |-> curriculum.tracks[i].id,
             module_id |-> curriculum.tracks[i].modules[j].id]]])

list_drills_for_module(curriculum, module_id) ==
    LET module == get_module(curriculum, module_id)
    IN  IF module = None THEN <<>>
        ELSE [i \in 1..Len(module.drills) |->
                [drill_id |-> module.drills[i].id, drill_type |-> module.drills[i].drill_type]]

(***************************************************************************)
(* academy/drill_engine.py                                                 *)
(***************************************************************************)
DRILL_REGISTRY == {"period_checkin", "micro_quiz"}

\* str(n) for the small numbers that occur.
IntStr(n) == CASE n = 0 -> "0" [] n = 1 -> "1" [] n = 2 -> "2" [] n = 3 -> "3"
               [] n = 4 -> "4" [] OTHER -> "100"

\* int(phase[1]) + 1 if phase.startswith("P") and len(phase) == 2 else ""
\* (the empty string is written 0: both are falsy).  The phases that occur
\* are PRE, the empty phase and P followed by a digit.
NextPeriodNum(phase) ==
    CASE phase = "P0" -> 1 [] phase = "P1" -> 2 [] phase = "P2" -> 3 [] phase = "P3" -> 4
      [] phase = "P9" -> 10 [] OTHER -> 0

\* str.replace of the two-token pattern <<a, b>> by the token r.
RECURSIVE ReplacePair(_, _, _, _)
ReplacePair(s, a, b, r) ==
    IF Len(s) < 2 THEN s
    ELSE IF s[1] = a /\ s[2] = b THEN <<r>> \o ReplacePair(SubSeq(s, 3, Len(s)), a, b, r)
    ELSE <<s[1]>> \o ReplacePair(Tail(s), a, b, r)

\* "\n\n".join(parts)
RECURSIVE Join(_)
Join(parts) ==
    IF parts = <<>> THEN <<>>
    ELSE IF Len(parts) = 1 THEN parts[1]
    ELSE parts[1] \o <<"\n\n">> \o Join(Tail(parts))

\* answers.get(field) compared with value: "T", "F", or "raise" (an ordering
\* comparison of None with a number is a TypeError).
RuleMatch(answers, c) ==
    LET has == c.field \in DOMAIN answers
        B(b) == IF b THEN "T" ELSE "F"
    IN  CASE "operator" \notin DOMAIN c -> "F"
          [] c.operator = "==" -> B(has /\ answers[c.field] = c.value)
          [] c.operator = "!=" -> B(~has \/ answers[c.field] # c.value)
          [] c.operator \in {"<=", ">=", "<", ">"} /\ ~has -> "raise"
          [] c.operator = "<=" -> B(answers[c.field] <= c.value)
          [] c.operator = ">=" -> B(answers[c.field] >= c.value)
          [] c.operator = "<"  -> B(answers[c.field] < c.value)
          [] c.operator = ">"  -> B(answers[c.field] > c.value)
          [] OTHER -> "F"

\* The next_task text of a matching rule after the placeholder replacement
\* (lines 78-83).
NextTaskText(nt, phase) ==
    LET n == NextPeriodNum(phase)
    IN  IF n # 0 /\ n <= 3 THEN Replace(nt, "{next_period}", IntStr(n))
        ELSE ReplacePair(nt, "P", "{next_period}", "naechste Session")

\* The texts of the matching rules (hit: their indices, in rule order), empty
\* texts left out, joined.
RuleTexts(rules, hit, phase) ==
    [feedback |-> Join(SelectSeq([k \in 1..Len(hit) |-> rules[hit[k]].feedback],
                                 LAMBDA x : x # <<>>)),
     next_task |-> Join(SelectSeq([k \in 1..Len(hit) |->
                                      NextTaskText(rules[hit[k]].next_task, phase)],
                                  LAMBDA x : x # <<>>))]

\* m[i] is the outcome of rule i's condition.
RuleResults(rules, m, phase) ==
    [raised |-> \E i \in 1..Len(rules) : m[i] = "raise",
     texts |-> RuleTexts(rules, SelectSeq([i \in 1..Len(rules) |-> i], LAMBDA i : m[i] = "T"), phase)]

evaluate_coaching_rules(answers, rules, phase) ==
    RuleResults(rules, [i \in 1..Len(rules) |-> RuleMatch(answers, rules[i].condition)], phase)

(***************************************************************************)
(* Widgets.  A widget is <<kind, phase, drill id>>; a script run is         *)
(* started by one interaction, and st.button / st.form_submit_button read  *)
(* True only for the widget that started the run.                          *)
(***************************************************************************)
W(kind, phase, drill) == <<kind, phase, drill>>
NoClick      == W("none", "", "")
SetupSubmit  == W("session_setup", "", "")
PostBtn      == W("post", "", "")
CancelBtn    == W("cancel", "", "")
SaveNotesBtn == W("save_with_notes", "", "")
CompleteBtn  == W("complete_now", "", "")
WeiterBtn    == W("weiter", "", "")
PhaseBtn(p)  == W("phase", p, "")

\* What a drill renderer hands back: the returned triple, the widgets it drew,
\* the quiz entries of st.session_state, and whether it called st.rerun().
DrillOut(answers, feedback, next_task, rendered, quiz, rerun, raised) ==
    [answers |-> answers, feedback |-> feedback, next_task |-> next_task,
     rendered |-> rendered, quiz |-> quiz, rerun |-> rerun, raised |-> raised]

(***************************************************************************)
(* academy/drills/period_checkin.py                                        *)
(***************************************************************************)
\* Lines 74-90: the submitted form's answers with the rules' feedback.
Submitted(answers, ev, form, quiz) ==
    DrillOut(answers, ev.texts.feedback, ev.texts.next_task, {form}, quiz, FALSE, ev.raised)

render_period_checkin(drill, context, quiz, click, inp) ==
    LET questions == drill.config.questions
        phase == context.phase
        form == W("period_checkin", phase, "")
        shown == {i \in 1..Len(questions) :
                    ~(questions[i].user_filter # {} /\ context.user \notin questions[i].user_filter)}
        answers == [q \in {questions[i].id : i \in shown} |-> inp.values[q]]
    IN  IF questions = <<>> THEN DrillOut(None, None, None, {}, quiz, FALSE, FALSE)
        ELSE IF click = form
             THEN Submitted(answers, evaluate_coaching_rules(answers, drill.config.coaching_rules, phase),
                            form, quiz)
             ELSE DrillOut(None, None, None, {form}, quiz, FALSE, FALSE)

(***************************************************************************)
(* academy/drills/micro_quiz.py                                            *)
(***************************************************************************)
render_micro_quiz(drill, context, quiz, click, inp) ==
    LET questions == drill.config.questions
        phase == context.phase
        quiz_key == <<drill.id, phase>>
        q0 == IF quiz_key \in DOMAIN quiz THEN quiz
              ELSE [k \in DOMAIN quiz \cup {quiz_key} |->
                        IF k = quiz_key THEN [started |-> FALSE] ELSE quiz[k]]
        startBtn == W("quiz_start", phase, drill.id)
        form == W("quiz_form", phase, drill.id)
        answers == [q \in {questions[i].id : i \in 1..Len(questions)} |-> inp.values[q]]
        correct_count == Cardinality({i \in 1..Len(questions) :
                                        answers[questions[i].id] = questions[i].correct})
        score == (correct_count * 100) \div Len(questions)
        feedback == <<"Quiz abgeschlossen:", IntStr(correct_count), "/",
                      IntStr(Len(questions)), "richtig", IntStr(score), "%">>
        next_task == IF score < 60 THEN <<"Wiederhole Begriffe mit < 60% Erfolgsrate">> ELSE <<>>
    IN  IF questions = <<>> THEN DrillOut(None, None, None, {}, quiz, FALSE, FALSE)
        ELSE IF ~q0[quiz_key].started
             THEN IF click = startBtn
                  THEN DrillOut(None, None, None, {startBtn},
                                [q0 EXCEPT ![quiz_key].started = TRUE], TRUE, FALSE)
                  ELSE DrillOut(None, None, None, {startBtn}, q0, FALSE, FALSE)
        ELSE IF click = form \/ inp.expired
             THEN DrillOut(answers, feedback, next_task, {form},
                           [q0 EXCEPT ![quiz_key].started = FALSE], FALSE, FALSE)
             ELSE DrillOut(None, None, None, {form}, q0, FALSE, FALSE)

\* render_drill: the registry lookup and the call of the renderer.
render_drill(drill, context, quiz, click, inp) ==
    IF drill.drill_type \notin DRILL_REGISTRY
    THEN DrillOut(None, None, None, {}, quiz, FALSE, FALSE)
    ELSE IF drill.drill_type = "period_checkin"
         THEN render_period_checkin(drill, context, quiz, click, inp)
         ELSE render_micro_quiz(drill, context, quiz, click, inp)

(***************************************************************************)
(* academy/pages/session_trainer_page.py                                   *)
(*                                                                         *)
(* One script run is one evaluation of render_session_trainer_page.  ss is *)
(* st.session_state of the browser session: force_new_session and          *)
(* show_post_form (an absent key reads falsy and is written FALSE) and the *)
(* quiz entries.                                                           *)
(***************************************************************************)
\* The result of a script run: the session directory, st.session_state, the
\* widgets on the page, whether st.rerun() was called, whether the sessions
\* directory was made, whether a file was written, the phase of the
\* check-in the run saved ("" when it saved none), and how the run left the
\* phase section of lines 293-360 ("not_reached" when it ended before).
PageOut(dir, ss, rendered, rerun, mkdir, wrote, saved) ==
    [files |-> dir, ss |-> ss, rendered |-> rendered, rerun |-> rerun,
     mkdir |-> mkdir, wrote |-> wrote, saved |-> saved, drill |-> "not_reached"]

\* The page result r of a run whose phase section ended as `how`.
Outcome(r, how) == [r EXCEPT !.drill = how]

\* What render_drill did with the drill (drill_engine.py 29-36 and the
\* renderers' returns).
DrillCase(d, drill) ==
    IF drill.drill_type \notin DRILL_REGISTRY THEN "not_registered"
    ELSE IF drill.config.questions = <<>> THEN "no_questions"
    ELSE IF d.raised THEN "raised"
    ELSE IF d.answers = None THEN "not_submitted"
    ELSE "answers"

render_session_setup(dir, ss, username, click, inp, t) ==
    IF list_modules(Curriculum) = <<>> \/ list_drills_for_module(Curriculum, inp.module_id) = <<>>
    THEN PageOut(dir, ss, {}, FALSE, FALSE, FALSE, "")
    ELSE IF click = SetupSubmit /\ inp.home # <<>> /\ inp.away # <<>>
         THEN PageOut(create_session(dir,
                        NewSession(username, inp.date, inp.league, inp.home, inp.away,
                                   inp.module_id, inp.drill_id, inp.goal, inp.confidence, t)),
                      ss, {}, TRUE, TRUE, TRUE, "")
         ELSE PageOut(dir, ss, {SetupSubmit}, FALSE, FALSE, FALSE, "")

\* A page that saves a check-in after every call of the drill renderer, with
\* empty answers when it returned none.
AfterDrill_saves_always(d, session, dir, ss2, page, click, selected_phase, t) ==
    PageOut(save_session(dir, add_checkin(session, selected_phase,
                                          IF d.answers = None THEN EmptyDict ELSE d.answers,
                                          IF d.answers = None THEN <<>> ELSE d.feedback,
                                          IF d.answers = None THEN <<>> ELSE d.next_task, t), t),
            ss2, page \cup d.rendered \cup {WeiterBtn}, click = WeiterBtn,
            FALSE, TRUE, selected_phase)

\* Lines 351-360: what the page does with the drill renderer's result d.
AfterDrill(d, session, dir, ss2, page, click, selected_phase, t) ==
    IF d.raised
    THEN PageOut(dir, ss2, page \cup d.rendered, FALSE, FALSE, FALSE, "")
    ELSE IF d.rerun
    THEN PageOut(dir, ss2, {}, TRUE, FALSE, FALSE, "")
    ELSE IF d.answers # None
    THEN PageOut(save_session(dir, add_checkin(session, selected_phase, d.answers,
                                               d.feedback, d.next_task, t), t),
                 ss2, page \cup d.rendered \cup {WeiterBtn}, click = WeiterBtn,
                 FALSE, TRUE, selected_phase)
    ELSE PageOut(dir, ss2, page \cup d.rendered, FALSE, FALSE, FALSE, "")

\* Lines 293-349: the phase selector and the call of the drill renderer.
Drilled(d, drill, session, dir, ss1, page, click, selected_phase, t) ==
    Outcome(AfterDrill(d, session, dir, ss1, page, click, selected_phase, t),
            DrillCase(d, drill))

PhaseSection(session, dir, ss1, page, user, click, inp, selected_phase, drill, t) ==
    IF selected_phase = ""
    THEN Outcome(PageOut(dir, ss1, page, FALSE, FALSE, FALSE, ""), "no_phase")
    ELSE IF selected_phase = "PRE"
    THEN Outcome(PageOut(dir, ss1, page, FALSE, FALSE, FALSE, ""), "pre")
    ELSE IF drill = None
    THEN Outcome(PageOut(dir, ss1, page, FALSE, FALSE, FALSE, ""), "drill_not_found")
    ELSE Drilled(render_drill(drill, [user |-> user, session_id |-> session.session_id,
                                      phase |-> selected_phase], ss1.quiz, click, inp),
                 drill, session, dir, ss1, page, click, selected_phase, t)

\* Lines 228-264: the POST completion section.
PostSection(session, fresh_session, dir, ss1, page, user, click, inp, t) ==
    IF ss1.show_post_form /\ click \in {SaveNotesBtn, CompleteBtn} /\ fresh_session # None
    THEN PageOut(save_session(dir, complete_session(fresh_session,
                        IF click = SaveNotesBtn THEN inp.summary ELSE "",
                        IF click = SaveNotesBtn THEN inp.unclear ELSE "", "", 3, t), t),
                 [ss1 EXCEPT !.force_new_session = TRUE, !.show_post_form = FALSE],
                 {}, TRUE, FALSE, TRUE, "")
    ELSE PhaseSection(session, dir, ss1,
                      page \cup (IF ss1.show_post_form THEN {SaveNotesBtn, CompleteBtn} ELSE {}),
                      user, click, inp,
                      IF click[1] = "phase" THEN click[2] ELSE "",
                      get_drill(Curriculum, session.module_id, session.drill_id), t)

\* Lines 206-226: the POST and cancel buttons; ss1 is st.session_state after
\* the POST button's handler.
TopSection(session, active, dir, ss1, user, click, inp, t) ==
    IF active /\ click = CancelBtn
    THEN PageOut(save_session(dir, [session EXCEPT !.state = "cancelled"], t),
                 ss1, {}, TRUE, FALSE, TRUE, "")
    ELSE PostSection(session, load_session(dir, session.session_id), dir, ss1,
                     (IF active THEN {PostBtn, CancelBtn} ELSE {})
                        \cup {PhaseBtn(Phases[i]) : i \in 1..Len(Phases)},
                     user, click, inp, t)

render_active_session(session, dir, ss, user, click, inp, t) ==
    TopSection(session, session.state = "active", dir,
               IF session.state = "active" /\ click = PostBtn
               THEN [ss EXCEPT !.show_post_form = TRUE] ELSE ss,
               user, click, inp, t)

\* Lines 43-49: the session found is loaded again and kept only if that copy
\* is active.
Reloaded(dir, found) ==
    IF found = None THEN None
    ELSE IF found.session_id \in DOMAIN dir /\ dir[found.session_id].state = "active"
         THEN load_session(dir, found.session_id)
         ELSE None

\* The page result r of a run that rendered `session` as the active session
\* (None: it rendered the setup form).
Viewing(r, session) ==
    [files |-> r.files, ss |-> r.ss, rendered |-> r.rendered, rerun |-> r.rerun,
     mkdir |-> r.mkdir, wrote |-> r.wrote, saved |-> r.saved, drill |-> r.drill,
     view |-> session]

\* Lines 51-54.
Dispatch(active_session, dir, ss, user, username, click, inp, t) ==
    IF active_session # None
    THEN Viewing(render_active_session(active_session, dir, ss, user, click, inp, t),
                 active_session)
    ELSE Viewing(render_session_setup(dir, ss, username, click, inp, t), None)

\* A trainer page that shows the user's most recent session whatever its state.
render_session_trainer_page_latest(dirExists, dir, ss, user, username, click, inp, t) ==
    Dispatch(IF list_sessions(dirExists, dir, username, NoFilter) = <<>> THEN None
             ELSE Head(list_sessions(dirExists, dir, username, NoFilter)),
             dir, ss, user, username, click, inp, t)

render_session_trainer_page(dirExists, dir, ss, user, username, click, inp, t) ==
    IF ss.force_new_session
    THEN Viewing(render_session_setup(dir, [ss EXCEPT !.force_new_session = FALSE],
                                      username, click, inp, t), None)
    ELSE Dispatch(Reloaded(dir, get_active_session(dirExists, dir, username)),
                  dir, ss, user, username, click, inp, t)

(***************************************************************************)
(* The trainer as a state machine: two logged-in users, one browser        *)
(* session each, over one sessions directory.                              *)
(***************************************************************************)
VARIABLES
    files,      \* data/sessions: session id -> stored session
    dirs,       \* the data directories that exist
    now,        \* datetime.now()
    browser,    \* per user: st.session_state, the widgets shown, a pending st.rerun()
    lastRun,    \* per user: the interaction of the last script run and what it saved
    creates,    \* number of create_session calls that returned
    subs,       \* data/submissions: file name -> stored payload
    subLog,     \* per submitted (user, date, home, away): the last payload and its call number
    obs,        \* data/observations: file name -> stored combined observation
    obsLog,     \* per (user, game): per period the answers last submitted and how often
    cache,      \* data/cache: file name -> {"updated_at", "data"}
    lastRefresh,\* what the last refresh() did
    dataFiles,  \* the files directly under data/: file name -> content
    ret         \* per loader: whether its path was missing when last called, and the result

vars == <<files, dirs, now, browser, lastRun, creates, subs, subLog, obs, obsLog,
          cache, lastRefresh, dataFiles, ret>>

\* The state of the parts a specification does not exercise.
NoRefresh == [returned |-> FALSE, raised |-> FALSE, warnings |-> {}, attempted |-> {},
              failed |-> {}, opponent |-> <<>>, at |-> 0, before |-> <<>>]
\* No script run yet: the interaction that started the last run, the phase of
\* the check-in it saved, whether it wrote a session file, the session it
\* rendered as active, and the session whose POST button was pressed last.
NoRun == [click |-> <<"none", "", "">>, saved |-> "", wrote |-> FALSE, view |-> None,
          drill |-> "not_reached", postFor |-> <<>>]
TrainerIdle ==
    /\ files = <<>>
    /\ browser = [u \in {"martin"} |-> [ss |-> [force_new_session |-> FALSE,
                        show_post_form |-> FALSE, quiz |-> <<>>], rendered |-> {}, rerun |-> FALSE]]
    /\ lastRun = [u \in {"martin"} |-> NoRun]
    /\ creates = 0
SubmissionsIdle == subs = <<>> /\ subLog = <<>>
ObservationsIdle == obs = <<>> /\ obsLog = <<>>
CacheIdle == cache = <<>> /\ lastRefresh = NoRefresh
LoaderIdle == ret = <<>> /\ dataFiles = [f \in {"curriculum.json"} |-> Curriculum]
TrainerFrame == UNCHANGED <<files, browser, lastRun, creates>>
SubmissionsFrame == UNCHANGED <<subs, subLog>>
ObservationsFrame == UNCHANGED <<obs, obsLog>>
CacheFrame == UNCHANGED <<cache, lastRefresh>>
LoaderFrame == UNCHANGED <<dataFiles, ret>>

Users == {"martin"}
Dates == {"2026-01-02"}
Teams == {<<"ERC", " ", "Ingolstadt">>, <<"Adler", " ", "Mannheim">>}

\* The widget values a run reads; a run that is not a form submit reads the
\* defaults.
Inp(date, home, away, module_id, drill_id, summary, v, expired) ==
    [date |-> date, league |-> "DEL", home |-> home, away |-> away,
     module_id |-> module_id, drill_id |-> drill_id,
     goal |-> "System-Reads verbessern", confidence |-> 3,
     summary |-> summary, unclear |-> "",
     values |-> [triangle_rating |-> v, q1 |-> v], expired |-> expired]

DefaultInp(expired) ==
    Inp("2026-01-02", <<"ERC", " ", "Ingolstadt">>, <<"Adler", " ", "Mannheim">>,
        "A1", "A1_D1", "", 3, expired)

\* The (module, drill) pairs the setup form offers.
DrillChoices ==
    {<<"A1", "A1_D1">>, <<"A1", "A1_Q1">>, <<"A2", "">>}

InitBrowser ==
    [ss |-> [force_new_session |-> FALSE, show_post_form |-> FALSE, quiz |-> <<>>],
     rendered |-> {}, rerun |-> FALSE]

\* A session of the other user, created before the run starts.
OtherSession ==
    NewSession("christoph", "2026-01-02", "DEL", <<"ERC", " ", "Ingolstadt">>,
               <<"Adler", " ", "Mannheim">>, "A1", "A1_D1", "System-Reads verbessern", 3, 0)

\* The sessions directory is missing, empty, or holds the other user's session.
InitStore ==
    \/ files = <<>> /\ dirs \in {{}, {"sessions"}}
    \/ files = create_session(<<>>, OtherSession) /\ dirs = {"sessions"}

Init ==
    /\ InitStore
    /\ now = 1
    /\ browser = [u \in Users |-> InitBrowser]
    /\ lastRun = [u \in Users |-> NoRun]
    /\ creates = Cardinality(DOMAIN files)
    /\ SubmissionsIdle /\ ObservationsIdle /\ CacheIdle /\ LoaderIdle

\* One script run of user u's browser session, started by `click`.
\* The effect r of a script run on the stores and on u's browser session.
Commit(u, click, r) ==
    /\ r.wrote => now < MaxClock
    /\ files' = r.files
    /\ dirs' = IF r.mkdir THEN dirs \cup {"sessions"} ELSE dirs
    /\ now' = IF r.wrote THEN now + 1 ELSE now
    /\ browser' = [browser EXCEPT ![u] =
                      [ss |-> r.ss, rendered |-> r.rendered, rerun |-> r.rerun]]
    /\ lastRun' = [lastRun EXCEPT ![u] =
                      [click |-> click, saved |-> r.saved, wrote |-> r.wrote, view |-> r.view,
                       drill |-> r.drill,
                       postFor |-> IF click = PostBtn /\ r.view # None
                                   THEN <<r.view.session_id, r.view.created_at>>
                                   ELSE lastRun[u].postFor]]
    /\ creates' = IF r.mkdir THEN creates + 1 ELSE creates
    /\ SubmissionsFrame /\ ObservationsFrame /\ CacheFrame /\ LoaderFrame

Run(u, click, inp) ==
    Commit(u, click, render_session_trainer_page("sessions" \in dirs, files, browser[u].ss,
                                                 u, u, click, inp, now))

Clickable(u, w) == ~browser[u].rerun /\ w \in browser[u].rendered

\* The user opens the trainer page (or the page is run again with no widget).
OpenPage(u) ==
    /\ ~browser[u].rerun
    /\ \E e \in BOOLEAN : Run(u, NoClick, DefaultInp(e))

\* The run scheduled by st.rerun().
Rerun(u) ==
    /\ browser[u].rerun
    /\ \E e \in BOOLEAN : Run(u, NoClick, DefaultInp(e))

SubmitSetup(u) ==
    /\ Clickable(u, SetupSubmit)
    /\ \E date \in Dates, home \in Teams, away \in Teams, md \in DrillChoices :
          Run(u, SetupSubmit, Inp(date, home, away, md[1], md[2], "", 3, FALSE))

ClickPost(u) == Clickable(u, PostBtn) /\ Run(u, PostBtn, DefaultInp(FALSE))

ClickCancel(u) == Clickable(u, CancelBtn) /\ Run(u, CancelBtn, DefaultInp(FALSE))

ClickComplete(u) ==
    \/ /\ Clickable(u, SaveNotesBtn)
       /\ \E summary \in {"", "gut"} :
             Run(u, SaveNotesBtn, Inp("2026-01-02", <<>>, <<>>, "A1", "A1_D1", summary, 3, FALSE))
    \/ /\ Clickable(u, CompleteBtn)
       /\ Run(u, CompleteBtn, DefaultInp(FALSE))

ClickPhase(u) ==
    \E i \in 1..Len(Phases), e \in BOOLEAN :
        /\ Clickable(u, PhaseBtn(Phases[i]))
        /\ Run(u, PhaseBtn(Phases[i]), DefaultInp(e))

\* A widget drawn by the drill renderer or below it: the period check-in form,
\* the quiz start button, the quiz form, the "Weiter" button.
DrillWidgets == {"period_checkin", "quiz_start", "quiz_form", "weiter"}

ClickDrillWidget(u) ==
    \E w \in browser[u].rendered, v \in {2, 4}, e \in BOOLEAN :
        /\ ~browser[u].rerun
        /\ w[1] \in DrillWidgets
        /\ Run(u, w, Inp("2026-01-02", <<>>, <<>>, "A1", "A1_D1", "", v, e))

Next ==
    \E u \in Users :
        \/ OpenPage(u)
        \/ Rerun(u)
        \/ SubmitSetup(u)
        \/ ClickPost(u)
        \/ ClickCancel(u)
        \/ ClickComplete(u)
        \/ ClickPhase(u)
        \/ ClickDrillWidget(u)

Spec == Init /\ [][Next]_vars

(***************************************************************************)
(* C1: a session is created "active" with no check-ins and an empty POST   *)
(* block; the state stored under a session id changes only active -> done *)
(* and active -> cancelled, so a closed session id never reads "active"    *)
(* again.                                                                  *)
(***************************************************************************)
C1_Lifecycle ==
    [][\A sid \in DOMAIN files' :
         IF sid \in DOMAIN files
         THEN \/ files'[sid].state = files[sid].state
              \/ files[sid].state = "active" /\ files'[sid].state \in {"done", "cancelled"}
         ELSE /\ files'[sid].state = "active"
              /\ files'[sid].checkins = <<>>
              /\ files'[sid].post = EmptyDict]_vars

(***************************************************************************)
(* C2: every create_session call that returns adds a session file of its   *)
(* own and leaves every stored session as it was.                          *)
(***************************************************************************)
C2_CreateKeepsEarlier ==
    [][creates' = creates + 1 =>
         /\ Cardinality(DOMAIN files') = Cardinality(DOMAIN files) + 1
         /\ \A sid \in DOMAIN files : sid \in DOMAIN files' /\ files'[sid] = files[sid]]_vars

(***************************************************************************)
(* C3: the script run started by the submit of a drill form (period        *)
(* check-in or quiz) saves a check-in of the form's phase.                 *)
(***************************************************************************)
C3_SubmitSavesCheckin ==
    \A u \in Users :
        lastRun[u].click[1] \in {"period_checkin", "quiz_form"}
            => lastRun[u].saved = lastRun[u].click[2]

(***************************************************************************)
(* The session store under the calls the pages make on it, in any order    *)
(* and for both users: create_session (setup, lines 179-190), the check-in *)
(* save (lines 351-354), the completion (lines 253-257), the cancel (lines *)
(* 221-222).  The widget values are drawn from the sets below.             *)
(***************************************************************************)
StoreUsers == {"martin", "christoph"}

\* The games a session is set up for.
Games == {<<"2026-01-02", <<"ERC", " ", "Ingolstadt">>, <<"Adler", " ", "Mannheim">>>>,
          <<"2026-01-02", <<"Adler", " ", "Mannheim">>, <<"ERC", " ", "Ingolstadt">>>>}

\* Calls of the store do not touch any browser session.
StoreFrame ==
    /\ UNCHANGED <<browser, lastRun>>
    /\ SubmissionsFrame /\ ObservationsFrame /\ CacheFrame /\ LoaderFrame

StoreInit ==
    /\ files = <<>>
    /\ dirs \in {{}, {"sessions"}}
    /\ now = 1
    /\ browser = [u \in Users |-> InitBrowser]
    /\ lastRun = [u \in Users |-> NoRun]
    /\ creates = 0
    /\ SubmissionsIdle /\ ObservationsIdle /\ CacheIdle /\ LoaderIdle

StoreCreate ==
    \E u \in StoreUsers, g \in Games, drill_id \in {"A1_D1", "A1_Q1"} :
        /\ now < MaxClock
        /\ files' = create_session(files,
                        NewSession(u, g[1], "DEL", g[2], g[3], "A1", drill_id,
                                   "System-Reads verbessern", 3, now))
        /\ dirs' = dirs \cup {"sessions"}
        /\ now' = now + 1
        /\ creates' = creates + 1
        /\ StoreFrame

StoreCheckin ==
    \E sid \in DOMAIN files, phase \in {"P1", "P2", "P3"}, v \in {2, 4} :
        /\ now < MaxClock
        /\ files[sid].state = "active"
        /\ files' = save_session(files,
                        add_checkin(load_session(files, sid), phase,
                                    [triangle_rating |-> v], <<>>, <<>>, now), now)
        /\ now' = now + 1
        /\ UNCHANGED <<dirs, creates>>
        /\ StoreFrame

StoreComplete ==
    \E sid \in DOMAIN files :
        /\ now < MaxClock
        /\ files[sid].state = "active"
        /\ files' = save_session(files,
                        complete_session(load_session(files, sid), "", "", "", 3, now), now)
        /\ now' = now + 1
        /\ UNCHANGED <<dirs, creates>>
        /\ StoreFrame

StoreCancel ==
    \E sid \in DOMAIN files :
        /\ now < MaxClock
        /\ files[sid].state = "active"
        /\ files' = save_session(files, [files[sid] EXCEPT !.state = "cancelled"], now)
        /\ now' = now + 1
        /\ UNCHANGED <<dirs, creates>>
        /\ StoreFrame

StoreNext == StoreCreate \/ StoreCheckin \/ StoreComplete \/ StoreCancel

SpecSessions == StoreInit /\ [][StoreNext]_vars

(***************************************************************************)
(* C4: a session holds at most one check-in per phase, and every stored    *)
(* check-in's phase is one of PRE, P1, P2, P3.                             *)
(***************************************************************************)
C4_OneCheckinPerPhase ==
    \A sid \in DOMAIN files :
        /\ \A i, j \in 1..Len(files[sid].checkins) :
              files[sid].checkins[i].phase = files[sid].checkins[j].phase => i = j
        /\ \A i \in 1..Len(files[sid].checkins) :
              files[sid].checkins[i].phase \in {"PRE", "P1", "P2", "P3"}

(***************************************************************************)
(* storage.py: pre-match submissions                                       *)
(***************************************************************************)
\* str.lower() of one token.
Lower(c) == CASE c = "M" -> "m" [] c = "C" -> "c" [] c = "ING" -> "ing"
              [] c = "MAN" -> "man" [] c = "KEC" -> "kec" [] OTHER -> c

StrLower(s) == [i \in 1..Len(s) |-> Lower(s[i])]

RECURSIVE LStrip(_)
LStrip(s) == IF s # <<>> /\ Head(s) = " " THEN LStrip(Tail(s)) ELSE s

RECURSIVE RStrip(_)
RStrip(s) == IF s # <<>> /\ s[Len(s)] = " " THEN RStrip(SubSeq(s, 1, Len(s) - 1)) ELSE s

\* str.strip()
Strip(s) == RStrip(LStrip(s))

\* `v or d`: a missing or empty value gives the default.
OrDefault(v, d) == IF v = <<>> THEN d ELSE v

\* dict.update / item assignment.
Update(d, e) == [k \in DOMAIN d \cup DOMAIN e |-> IF k \in DOMAIN e THEN e[k] ELSE d[k]]

\* save_submission lines 24-30: YYYY-MM-DD__HOME-vs-AWAY__user.json
SubmissionFileName(payload) ==
    Replace(OrDefault(payload.game.date, <<"unknown-date">>), ":", "-")
        \o <<"_", "_">> \o Replace(OrDefault(payload.game.home, <<"home">>), " ", "_")
        \o <<"-", "vs", "-">> \o Replace(OrDefault(payload.game.away, <<"away">>), " ", "_")
        \o <<"_", "_">> \o StrLower(Strip(OrDefault(payload.user, <<"unknown">>)))
        \o <<".json">>

\* The payload as written: with submitted_at.
Stamped(payload, t) == Update(payload, [submitted_at |-> t])

\* A save_submission whose file name leaves out the away team.
save_submission_noaway(dir, payload, t) ==
    WriteFile(dir, SubmissionFileName([payload EXCEPT !.game.away = <<"away">>]),
              Stamped(payload, t))

save_submission(dir, payload, t) ==
    WriteFile(dir, SubmissionFileName(payload), Stamped(payload, t))

\* The payloads of the pre-match form (app.py lines 883-909), reduced to the
\* fields that name the file and one rating.
SubUsers == {<<"m", "artin">>, <<"M", "artin">>, <<"c", "hristoph">>}
SubAways == {<<"Adler", " ", "Mannheim">>, <<"Adler", "_", "Mannheim">>, <<"Koelner", " ", "Haie">>}
Payload(user, away, mood) ==
    [user |-> user,
     game |-> [date |-> <<"2026-01-02">>, home |-> <<"ERC", " ", "Ingolstadt">>, away |-> away],
     ratings |-> [mood |-> mood]]

SubKey(payload) == <<payload.user, payload.game.date, payload.game.home, payload.game.away>>

SubmissionsInit ==
    /\ SubmissionsIdle
    /\ dirs \in {{}, {"submissions"}}
    /\ now = 1
    /\ TrainerIdle /\ ObservationsIdle /\ CacheIdle /\ LoaderIdle

\* The pre-match form is submitted.
SaveSubmission ==
    \E user \in SubUsers, away \in SubAways, mood \in {1, 5} :
        /\ now < MaxClock
        /\ subs' = save_submission(subs, Payload(user, away, mood), now)
        /\ subLog' = Update(subLog, [k \in {SubKey(Payload(user, away, mood))} |->
                                        [payload |-> Stamped(Payload(user, away, mood), now),
                                         seq |-> now]])
        /\ dirs' = dirs \cup {"submissions"}
        /\ now' = now + 1
        /\ TrainerFrame /\ ObservationsFrame /\ CacheFrame /\ LoaderFrame

SubmissionsNext == SaveSubmission

SpecSubmissions == SubmissionsInit /\ [][SubmissionsNext]_vars

\* The file a submitted key is stored in.
FileOfKey(k) == SubmissionFileName(subLog[k].payload)

ObservationFileName(observation) ==
    <<observation.game.date, "_">> \o Replace(observation.game.home, " ", "_")
        \o <<"_", "vs", "_">> \o Replace(observation.game.away, " ", "_")
        \o <<"_", observation.user, ".json">>

\* Lines 151-159: the stored dict, or {} when there is none or it cannot be read.
ExistingData(dir, filename) ==
    IF filename \in DOMAIN dir /\ dir[filename] # Corrupt THEN dir[filename] ELSE EmptyDict

\* Lines 169-177: the periods dict with the entry of the submitted period set.
WithPeriod(existing_data, observation) ==
    Update(existing_data,
           [periods |-> Update(IF "periods" \in DOMAIN existing_data
                               THEN existing_data.periods ELSE EmptyDict,
                               [k \in {IntStr(observation.period)} |->
                                   [period |-> observation.period,
                                    timestamp |-> observation.timestamp,
                                    answers |-> observation.answers]])])

\* Lines 161-167.
WithMeta(existing_data, observation, t) ==
    Update(existing_data, [user |-> observation.user, game |-> observation.game,
                           focus |-> observation.focus, last_updated |-> t])

\* A save_observation that starts from an empty dict on every call.
save_observation_fresh(dir, observation, t) ==
    WriteFile(dir, ObservationFileName(observation),
              WithPeriod(WithMeta(EmptyDict, observation, t), observation))

save_observation(dir, observation, t) ==
    WriteFile(dir, ObservationFileName(observation),
              WithPeriod(WithMeta(ExistingData(dir, ObservationFileName(observation)),
                                  observation, t), observation))

\* The observation built by the form (app.py lines 994-1010).
Observation(username, period, answers, t) ==
    [user |-> username,
     game |-> [date |-> "2026-01-02", home |-> <<"ERC", " ", "Ingolstadt">>,
               away |-> <<"Adler", " ", "Mannheim">>, matchday |-> 30],
     focus |-> "CENTER_TRIANGLES", period |-> period, timestamp |-> t, answers |-> answers]

ObsKey(observation) == <<observation.user, observation.game>>

ObsAnswers == {[center_position |-> "low", triangle_rating |-> 2],
               [center_position |-> "high", triangle_rating |-> 4]}

\* The directory is missing, empty, or holds an unreadable file of martin's.
ObservationsInit ==
    /\ obsLog = <<>>
    /\ \/ obs = <<>> /\ dirs \in {{}, {"observations"}}
       \/ /\ obs = WriteFile(<<>>, ObservationFileName(Observation("martin", 1, <<>>, 0)), Corrupt)
          /\ dirs = {"observations"}
    /\ now = 1
    /\ TrainerIdle /\ SubmissionsIdle /\ CacheIdle /\ LoaderIdle

\* What the log holds for a key after one more submission of a period.
Logged(log, key, observation) ==
    Update(log, [k \in {key} |->
        Update(IF key \in DOMAIN log THEN log[key] ELSE <<>>,
               [p \in {observation.period} |->
                   [entry |-> [period |-> observation.period,
                               timestamp |-> observation.timestamp,
                               answers |-> observation.answers],
                    n |-> IF key \in DOMAIN log /\ observation.period \in DOMAIN log[key]
                          THEN log[key][observation.period].n + 1 ELSE 1]])])

\* The observation form of a period is submitted.
SaveObservation ==
    \E username \in {"martin", "christoph"}, period \in 1..3, answers \in ObsAnswers :
        /\ now < MaxClock
        /\ obs' = save_observation(obs, Observation(username, period, answers, now), now)
        /\ obsLog' = Logged(obsLog, ObsKey(Observation(username, period, answers, now)),
                            Observation(username, period, answers, now))
        /\ dirs' = dirs \cup {"observations"}
        /\ now' = now + 1
        /\ TrainerFrame /\ SubmissionsFrame /\ CacheFrame /\ LoaderFrame

ObservationsNext == SaveObservation

SpecObservations == ObservationsInit /\ [][ObservationsNext]_vars

\* The file of a (user, game).
ObsFileOfKey(k) ==
    ObservationFileName([user |-> k[1], game |-> k[2]])

(***************************************************************************)
(* C6: the periods map of a (user, game)'s file holds exactly the periods  *)
(* submitted so far, each with the entry (period, timestamp, answers) of   *)
(* its latest submission: saving one period leaves the others as stored.   *)
(***************************************************************************)
C6_PeriodsHoldLatest ==
    \A k \in DOMAIN obsLog :
        /\ ObsFileOfKey(k) \in DOMAIN obs
        /\ DOMAIN obs[ObsFileOfKey(k)].periods = {IntStr(p) : p \in DOMAIN obsLog[k]}
        /\ \A p \in DOMAIN obsLog[k] :
              obs[ObsFileOfKey(k)].periods[IntStr(p)] = obsLog[k][p].entry

\* A period was submitted twice and another period of the same file once,
\* before the resubmission.
C6_Witness ==
    \E k \in DOMAIN obsLog : \E p, q \in DOMAIN obsLog[k] :
        /\ p # q
        /\ obsLog[k][p].n >= 2
        /\ obsLog[k][q].entry.timestamp < obsLog[k][p].entry.timestamp

(***************************************************************************)
(* del_fetch.py and refresh() of app.py: the scrape caches                 *)
(***************************************************************************)
ERC_NAME == <<"ERC", " ", "Ingolstadt">>
Mannheim == <<"Adler", " ", "Mannheim">>
Koeln    == <<"Koelner", " ", "Haie">>
\* A club of the league that the two mappings do not list.
Duesseldorf == <<"Duesseldorfer", " ", "EG">>

\* TEAM_MAPPING.get(team_name, team_name.replace(" ", "_"))
TeamShort(team_name) ==
    CASE team_name = ERC_NAME -> <<"ING">>
      [] team_name = Mannheim -> <<"MAN">>
      [] team_name = Koeln -> <<"KEC">>
      [] OTHER -> Replace(team_name, " ", "_")

\* TEAM_SLUG_MAPPING has an entry for the team.
HasSlug(team_name) == team_name \in {ERC_NAME, Mannheim, Koeln}

TABLE_CACHE == <<"del_table.json">>
FIXTURES_CACHE == <<"del_fixtures.json">>
\* fetch_team_recent_games lines 373-374.
RecentCache(team_name) == <<"recent_">> \o StrLower(TeamShort(team_name)) \o <<".json">>

\* A write_cache that keeps the updated_at of the file it replaces.
write_cache_keep_stamp(dir, path, data, t) ==
    WriteFile(dir, path, [updated_at |-> IF path \in DOMAIN dir THEN dir[path].updated_at ELSE t,
                          data |-> data])

write_cache(dir, path, data, t) == WriteFile(dir, path, [updated_at |-> t, data |-> data])

read_cache(dir, path) == IF path \notin DOMAIN dir THEN None ELSE dir[path]

\* The upcoming ERC games of a fixture list, as indices.
Upcoming(fixtures, today) ==
    {i \in 1..Len(fixtures) :
        /\ fixtures[i].date >= today
        /\ (fixtures[i].home = ERC_NAME \/ fixtures[i].away = ERC_NAME)}

\* pick_next_erc_game: the first game in (date, time) order; the sort is
\* stable, so of equal games the one listed first.
pick_next_erc_game(fixtures, today) ==
    IF Upcoming(fixtures, today) = {} THEN None
    ELSE fixtures[CHOOSE i \in Upcoming(fixtures, today) :
            \A j \in Upcoming(fixtures, today) :
                \/ fixtures[i].date < fixtures[j].date
                \/ fixtures[i].date = fixtures[j].date /\ fixtures[i].time < fixtures[j].time
                \/ fixtures[i].date = fixtures[j].date /\ fixtures[i].time = fixtures[j].time /\ i <= j]

\* What refresh() leaves behind.
RefreshOut(dir, raised, warnings, attempted, failed, opponent) ==
    [cache |-> dir, raised |-> raised, warnings |-> warnings, attempted |-> attempted,
     failed |-> failed, opponent |-> opponent]

\* fetch_team_recent_games fails: no slug for the team, or the request or
\* the parse raises.
RecentFails(team_name, net) == ~HasSlug(team_name) \/ net.recent[team_name] = "fail"

\* Lines 575-580: the opponent's recent games, inside try/except.
RefreshOpponent(dir, opponent, warnings, failed, net, t) ==
    IF RecentFails(opponent, net)
    THEN RefreshOut(dir, FALSE, warnings \cup {"opponent"},
                    {"table", "fixtures", "erc", "opponent"}, failed \cup {"opponent"}, opponent)
    ELSE RefreshOut(write_cache(dir, RecentCache(opponent), [team |-> opponent, fetched |-> t], t),
                    FALSE, warnings, {"table", "fixtures", "erc", "opponent"}, failed, opponent)

\* Lines 570-576: the next game is looked up in the fixtures cache.
RefreshNextGame(dir, fixtures_wrap, next_game, warnings, failed, net, t) ==
    IF fixtures_wrap = None \/ next_game = None
    THEN RefreshOut(dir, FALSE, warnings, {"table", "fixtures", "erc"}, failed, <<>>)
    ELSE RefreshOpponent(dir, IF next_game.home = ERC_NAME THEN next_game.away ELSE next_game.home,
                         warnings, failed, net, t)

\* Lines 563-567: the recent games of ERC, inside try/except.
RefreshErc(dir, net, t) ==
    IF RecentFails(ERC_NAME, net)
    THEN RefreshNextGame(dir, read_cache(dir, FIXTURES_CACHE),
                         IF read_cache(dir, FIXTURES_CACHE) = None THEN None
                         ELSE pick_next_erc_game(read_cache(dir, FIXTURES_CACHE).data, net.today),
                         {"erc"}, {"erc"}, net, t)
    ELSE RefreshNextGame(write_cache(dir, RecentCache(ERC_NAME), [team |-> ERC_NAME, fetched |-> t], t),
                         read_cache(dir, FIXTURES_CACHE),
                         IF read_cache(dir, FIXTURES_CACHE) = None THEN None
                         ELSE pick_next_erc_game(read_cache(dir, FIXTURES_CACHE).data, net.today),
                         {}, {}, net, t)

\* Line 561: fetch_fixtures, not inside any try.
RefreshFixtures(dir, net, t) ==
    IF net.fixtures = "fail"
    THEN RefreshOut(dir, TRUE, {}, {"table", "fixtures"}, {"fixtures"}, <<>>)
    ELSE RefreshErc(write_cache(dir, FIXTURES_CACHE, net.games, t), net, t)

\* refresh(): line 560, fetch_table, not inside any try, then the rest.
refresh(dir, net, t) ==
    IF net.table = "fail"
    THEN RefreshOut(dir, TRUE, {}, {"table"}, {"table"}, <<>>)
    ELSE RefreshFixtures(write_cache(dir, TABLE_CACHE, [standings |-> t], t), net, t)

\* The fixture lists the league page may show.
Game(date, time, home, away) == [date |-> date, time |-> time, home |-> home, away |-> away]
FixtureLists ==
    {<<>>,
     <<Game(5, 1930, ERC_NAME, Mannheim)>>,
     <<Game(5, 1930, ERC_NAME, Mannheim), Game(3, 1400, Koeln, ERC_NAME)>>,
     <<Game(2, 1930, ERC_NAME, Duesseldorf), Game(1, 1930, Mannheim, Koeln)>>}

\* What the network and the calendar give one refresh.
Nets ==
    {[table |-> a, fixtures |-> b, games |-> g, today |-> d,
      recent |-> [x \in {ERC_NAME, Mannheim, Koeln, Duesseldorf} |->
                    IF x = ERC_NAME THEN e ELSE o]] :
        a \in {"ok", "fail"}, b \in {"ok", "fail"}, g \in FixtureLists, d \in {1, 4},
        e \in {"ok", "fail"}, o \in {"ok", "fail"}}

CacheInit ==
    /\ CacheIdle
    /\ dirs \in {{}, {"cache"}}
    /\ now = 1
    /\ TrainerIdle /\ SubmissionsIdle /\ ObservationsIdle /\ LoaderIdle

\* The effect r of one refresh() at time now.
RefreshCommit(r) ==
    /\ cache' = r.cache
    /\ lastRefresh' = [returned |-> ~r.raised, raised |-> r.raised, warnings |-> r.warnings,
                        attempted |-> r.attempted, failed |-> r.failed,
                        opponent |-> r.opponent, at |-> now, before |-> cache]
    /\ dirs' = IF r.cache # cache THEN dirs \cup {"cache"} ELSE dirs
    /\ now' = now + 1
    /\ TrainerFrame /\ SubmissionsFrame /\ ObservationsFrame /\ LoaderFrame

\* The button "DEL-Daten aktualisieren" is pressed.
Refresh == \E net \in Nets : now < MaxClock /\ RefreshCommit(refresh(cache, net, now))

CacheNext == Refresh

SpecCache == CacheInit /\ [][CacheNext]_vars

\* The cache file `path` was written by the last refresh.
Fresh(path) ==
    /\ path \in DOMAIN cache
    /\ cache[path].updated_at = lastRefresh.at
    /\ path \in DOMAIN lastRefresh.before => cache[path] # lastRefresh.before[path]

\* The cache file `path` is as it was before the last refresh.
Kept(path) ==
    IF path \in DOMAIN lastRefresh.before
    THEN path \in DOMAIN cache /\ cache[path] = lastRefresh.before[path]
    ELSE path \notin DOMAIN cache

(***************************************************************************)
(* C7 as stated: when refresh() has returned, the standings cache, the     *)
(* fixtures cache and the recent-games caches of ERC and of the next       *)
(* opponent were all written by that refresh.                              *)
(***************************************************************************)
C7_AllReplaced ==
    lastRefresh.returned =>
        /\ Fresh(TABLE_CACHE) /\ Fresh(FIXTURES_CACHE) /\ Fresh(RecentCache(ERC_NAME))
        /\ lastRefresh.opponent # <<>> => Fresh(RecentCache(lastRefresh.opponent))

(***************************************************************************)
(* C7 as amended: when refresh() has returned, the standings and fixtures  *)
(* caches were written by that refresh, and so was each recent-games cache *)
(* (ERC, next opponent) whose fetch did not fail; a recent-games cache     *)
(* whose fetch failed is as it was before the refresh.                     *)
(***************************************************************************)
C7_ReplacedUnlessFetchFailed ==
    lastRefresh.returned =>
        /\ Fresh(TABLE_CACHE) /\ Fresh(FIXTURES_CACHE)
        /\ IF "erc" \in lastRefresh.failed
           THEN Kept(RecentCache(ERC_NAME)) ELSE Fresh(RecentCache(ERC_NAME))
        /\ lastRefresh.opponent # <<>> =>
              IF "opponent" \in lastRefresh.failed
              THEN Kept(RecentCache(lastRefresh.opponent))
              ELSE Fresh(RecentCache(lastRefresh.opponent))

\* A refresh returned that replaced caches of an earlier refresh, fetched the
\* opponent's games, and kept the ERC cache of the earlier refresh because
\* the ERC fetch failed.
C7_Witness ==
    /\ lastRefresh.returned
    /\ TABLE_CACHE \in DOMAIN lastRefresh.before
    /\ "erc" \in lastRefresh.failed
    /\ RecentCache(ERC_NAME) \in DOMAIN cache
    /\ lastRefresh.opponent # <<>> /\ "opponent" \notin lastRefresh.failed

(***************************************************************************)
(* C8: whichever fetch of a refresh fails, refresh() does not raise, the   *)
(* failure is among the warnings, and the fetches after it are attempted.  *)
(***************************************************************************)
C8_FailuresAreWarnings ==
    lastRefresh.at > 0 =>
        /\ ~lastRefresh.raised
        /\ lastRefresh.failed \subseteq lastRefresh.warnings
        /\ {"table", "fixtures", "erc"} \subseteq lastRefresh.attempted

(***************************************************************************)
(* The loaders: curriculum.py, storage.py, app.py, del_fetch.py            *)
(***************************************************************************)
load_curriculum(dir, curriculum_path) ==
    IF curriculum_path \notin DOMAIN dir THEN [tracks |-> <<>>]
    ELSE JsonLoad(dir[curriculum_path])

load_json(dir, path) == IF path \notin DOMAIN dir THEN None ELSE JsonLoad(dir[path])

\* The user tokens of the file names, in ascending string order.
TokenOrder == <<"c", "m">>
TokenRank(c) == CHOOSE i \in 1..Len(TokenOrder) : TokenOrder[i] = c

\* a > b for two file names of equal length that differ first in a token of
\* TokenOrder.
NameAfter(a, b) ==
    \E i \in 1..Len(a) :
        /\ \A j \in 1..(i - 1) : a[j] = b[j]
        /\ a[i] # b[i] /\ TokenRank(a[i]) > TokenRank(b[i])

\* sorted(names, reverse=True)
RECURSIVE SortedReverse(_)
SortedReverse(S) ==
    IF S = {} THEN <<>>
    ELSE <<CHOOSE a \in S : \A b \in S \ {a} : NameAfter(a, b)>>
            \o SortedReverse(S \ {CHOOSE a \in S : \A b \in S \ {a} : NameAfter(a, b)})

list_submissions(dirExists, dir) == IF ~dirExists THEN <<>> ELSE SortedReverse(DOMAIN dir)

\* dict.get(key, default)
Get(d, key, default) == IF key \in DOMAIN d THEN d[key] ELSE default

\* Lines 105-113 of app.py: the readable, non-empty files with their names.
LoadedWithName(dir) ==
    {Update(dir[f], [_filename |-> f]) :
        f \in {g \in DOMAIN dir : JsonLoad(dir[g]) # Raise /\ dir[g] # EmptyDict}}

\* Lines 119-123 of app.py: f"{user}__{date}__{home}__{away}" of a submission.
SubGroupKey(d) ==
    Get(d, "user", <<"unknown">>) \o <<"__">>
        \o Get(Get(d, "game", EmptyDict), "date", <<"unknown">>) \o <<"__">>
        \o Get(Get(d, "game", EmptyDict), "home", <<"unknown">>) \o <<"__">>
        \o Get(Get(d, "game", EmptyDict), "away", <<"unknown">>)

\* x.get("timestamp", x.get("submitted_at", "")); the empty string sorts
\* first and is written 0.
StampOf(x) == Get(x, "timestamp", Get(x, "submitted_at", 0))

\* A choice of the entry with the smallest stamp.
LatestOf_oldest(group) == CHOOSE x \in group : \A y \in group : StampOf(x) <= StampOf(y)

\* Lines 126-131: the first of a group sorted by stamp, descending.
LatestOf(group) == CHOOSE x \in group : \A y \in group : StampOf(x) >= StampOf(y)

load_all_submissions(dirExists, dir) ==
    IF ~dirExists THEN <<>>
    ELSE SetToSeq({LatestOf({y \in LoadedWithName(dir) : SubGroupKey(y) = SubGroupKey(x)}) :
                        x \in LoadedWithName(dir)})

\* A set of period entries as a list sorted by period.
RECURSIVE SortByPeriod(_)
SortByPeriod(S) ==
    IF S = {} THEN <<>>
    ELSE <<CHOOSE x \in S : \A y \in S : x.period <= y.period>>
            \o SortByPeriod(S \ {CHOOSE x \in S : \A y \in S : x.period <= y.period})

\* Lines 201-220 of app.py: the period entries of one loaded file; files with
\* neither "periods" nor "period" are skipped.
PeriodsOf(data) ==
    IF "periods" \in DOMAIN data THEN {data.periods[k] : k \in DOMAIN data.periods}
    ELSE IF "period" \in DOMAIN data
         THEN {[period |-> data.period, timestamp |-> Get(data, "timestamp", None),
                answers |-> Get(data, "answers", EmptyDict)]}
         ELSE {}

ObsLoaded(dir) ==
    {x \in LoadedWithName(dir) : "periods" \in DOMAIN x \/ "period" \in DOMAIN x}

\* Lines 228-233 of app.py: f"{user}__{date}__{home}__{away}" of an observation.
ObsGroupKey(d) ==
    <<Get(d, "user", "unknown"), "__", Get(Get(d, "game", EmptyDict), "date", "unknown"), "__">>
        \o Get(Get(d, "game", EmptyDict), "home", <<"unknown">>) \o <<"__">>
        \o Get(Get(d, "game", EmptyDict), "away", <<"unknown">>)

\* A choice of the record with the smallest timestamp.
PeriodRecord_earliest(records) ==
    CHOOSE e \in records : \A o \in records : e.timestamp <= o.timestamp

\* Lines 245-249: of the records of one period number the one with the
\* latest timestamp (of equal ones the first met).
PeriodRecord(records) ==
    CHOOSE e \in records : \A o \in records : o.timestamp <= e.timestamp

\* Lines 240-251: per period number one record, sorted by period.
CombinedPeriods(group) ==
    SortByPeriod({PeriodRecord({o \in UNION {PeriodsOf(x) : x \in group} : o.period = e.period}) :
                    e \in UNION {PeriodsOf(x) : x \in group}})

\* Lines 254-262.
Combined(group) ==
    [user |-> Get(CHOOSE x \in group : TRUE, "user", None),
     game |-> Get(CHOOSE x \in group : TRUE, "game", None),
     focus |-> Get(CHOOSE x \in group : TRUE, "focus", None),
     periods |-> CombinedPeriods(group),
     timestamp |-> CombinedPeriods(group)[1].timestamp]

load_all_observations(dirExists, dir) ==
    IF ~dirExists THEN <<>>
    ELSE SetToSeq({Combined({y \in ObsLoaded(dir) : ObsGroupKey(y) = ObsGroupKey(x)}) :
                        x \in {z \in ObsLoaded(dir) :
                            CombinedPeriods({y \in ObsLoaded(dir) : ObsGroupKey(y) = ObsGroupKey(z)}) # <<>>}})

\* What the data directories may hold when a loader is called.
StoredSession == NewSession("martin", "2026-01-02", "DEL", <<"ERC", " ", "Ingolstadt">>,
                            <<"Adler", " ", "Mannheim">>, "A1", "A1_D1", "", 3, 1)
StoredSessions == WriteFile(<<>>, StoredSession.session_id, StoredSession)
StoredSubmissions ==
    save_submission(save_submission(<<>>, Payload(<<"m", "artin">>, <<"Adler", " ", "Mannheim">>, 1), 1),
                    Payload(<<"c", "hristoph">>, <<"Adler", " ", "Mannheim">>, 5), 2)
StoredObservations ==
    save_observation(save_observation(<<>>, Observation("martin", 2, <<>>, 1), 1),
                     Observation("martin", 1, <<>>, 2), 2)
StoredCache == write_cache(<<>>, TABLE_CACHE, [standings |-> 1], 1)

Populated(dir, content) == IF dir \in dirs THEN content ELSE <<>>

LoadInit ==
    /\ dirs \in SUBSET {"sessions", "submissions", "observations", "cache"}
    /\ \E populated \in BOOLEAN :
          /\ files = IF populated THEN Populated("sessions", StoredSessions) ELSE <<>>
          /\ subs = IF populated THEN Populated("submissions", StoredSubmissions) ELSE <<>>
          /\ obs = IF populated THEN Populated("observations", StoredObservations) ELSE <<>>
          /\ cache = IF populated THEN Populated("cache", StoredCache) ELSE <<>>
    /\ dataFiles \in {<<>>, [f \in {"curriculum.json"} |-> Curriculum],
                      [f \in {"curriculum.json"} |-> Corrupt]}
    /\ ret = <<>>
    /\ now = 1
    /\ browser = [u \in {"martin"} |-> [ss |-> [force_new_session |-> FALSE,
                        show_post_form |-> FALSE, quiz |-> <<>>], rendered |-> {}, rerun |-> FALSE]]
    /\ lastRun = [u \in {"martin"} |-> NoRun]
    /\ creates = 0 /\ subLog = <<>> /\ obsLog = <<>> /\ lastRefresh = NoRefresh

\* The loader fn was called while its path was missing (or not) and returned value.
Returned(fn, missing, value) ==
    /\ ret' = Update(ret, [k \in {fn} |-> [missing |-> missing, value |-> value]])
    /\ UNCHANGED <<files, dirs, now, browser, lastRun, creates, subs, subLog, obs, obsLog,
                   cache, lastRefresh, dataFiles>>

CallLoadCurriculum ==
    Returned("load_curriculum", "curriculum.json" \notin DOMAIN dataFiles,
             load_curriculum(dataFiles, "curriculum.json"))

CallListSessions ==
    Returned("list_sessions", "sessions" \notin dirs,
             list_sessions("sessions" \in dirs, files, "martin", NoFilter))

CallListSubmissions ==
    Returned("list_submissions", "submissions" \notin dirs,
             list_submissions("submissions" \in dirs, subs))

CallLoadAllSubmissions ==
    Returned("load_all_submissions", "submissions" \notin dirs,
             load_all_submissions("submissions" \in dirs, subs))

CallLoadAllObservations ==
    Returned("load_all_observations", "observations" \notin dirs,
             load_all_observations("observations" \in dirs, obs))

CallLoadSession ==
    Returned("load_session", StoredSession.session_id \notin DOMAIN files,
             load_session(files, StoredSession.session_id))

CallReadCache ==
    Returned("read_cache", TABLE_CACHE \notin DOMAIN cache, read_cache(cache, TABLE_CACHE))

CallLoadJson ==
    Returned("load_json",
             SubmissionFileName(Payload(<<"m", "artin">>, <<"Adler", " ", "Mannheim">>, 1))
                 \notin DOMAIN subs,
             load_json(subs, SubmissionFileName(Payload(<<"m", "artin">>, <<"Adler", " ", "Mannheim">>, 1))))

CallGetActiveSession ==
    Returned("get_active_session", files = <<>>,
             get_active_session("sessions" \in dirs, files, "martin"))

LoadNext ==
    \/ CallLoadCurriculum \/ CallListSessions \/ CallListSubmissions
    \/ CallLoadAllSubmissions \/ CallLoadAllObservations \/ CallLoadSession
    \/ CallReadCache \/ CallLoadJson \/ CallGetActiveSession

SpecLoad == LoadInit /\ [][LoadNext]_vars

\* The loader fn was last called with its path missing.
CalledMissing(fn) == fn \in DOMAIN ret /\ ret[fn].missing

(***************************************************************************)
(* C9: a loader called while its file or directory is missing does not     *)
(* raise and returns the empty default: load_curriculum a curriculum with  *)
(* no tracks; list_sessions, list_submissions, load_all_submissions and    *)
(* load_all_observations the empty list; load_session, read_cache,         *)
(* load_json and get_active_session None.                                  *)
(***************************************************************************)
C9_MissingGivesDefault ==
    /\ \A fn \in DOMAIN ret : ret[fn].missing => ret[fn].value # Raise
    /\ CalledMissing("load_curriculum") => ret["load_curriculum"].value = [tracks |-> <<>>]
    /\ \A fn \in {"list_sessions", "list_submissions", "load_all_submissions",
                   "load_all_observations"} : CalledMissing(fn) => ret[fn].value = <<>>
    /\ \A fn \in {"load_session", "read_cache", "load_json", "get_active_session"} :
          CalledMissing(fn) => ret[fn].value = None

\* Every one of the nine loaders was called with its path missing.
C9_Witness ==
    \A fn \in {"load_curriculum", "list_sessions", "list_submissions", "load_all_submissions",
               "load_all_observations", "load_session", "read_cache", "load_json",
               "get_active_session"} : CalledMissing(fn)

(***************************************************************************)
(* C10: get_active_session(user) is None exactly when no stored session of *)
(* the user is active; otherwise it is a stored active session of the user *)
(* and no active session of the user was created later.                    *)
(***************************************************************************)
ActiveOf(user) == {files[f] : f \in {g \in DOMAIN files :
                        files[g].user = user /\ files[g].state = "active"}}

C10_LatestActiveOfUser ==
    \A user \in StoreUsers :
        IF ActiveOf(user) = {}
        THEN get_active_session("sessions" \in dirs, files, user) = None
        ELSE /\ get_active_session("sessions" \in dirs, files, user) \in ActiveOf(user)
             /\ \A s \in ActiveOf(user) :
                   s.created_at <= get_active_session("sessions" \in dirs, files, user).created_at

\* A user has two active sessions, and the other user has an active session
\* created after both.
C10_Witness ==
    \E u, v \in StoreUsers : \E f, g, h \in DOMAIN files :
        /\ u # v
        /\ files[f].user = u /\ files[f].state = "active"
        /\ files[g].user = u /\ files[g].state = "active"
        /\ files[h].user = v /\ files[h].state = "active"
        /\ files[f].created_at < files[g].created_at
        /\ files[g].created_at < files[h].created_at

(***************************************************************************)
(* list_sessions over stored directories                                   *)
(***************************************************************************)
\* Session files as create_session, complete_session and save_session leave
\* them, and one file that is not JSON.
PoolSession(user, module_id, drill_id, t, state) ==
    [NewSession(user, "2026-01-02", "DEL", <<"ERC", " ", "Ingolstadt">>,
                <<"Adler", " ", "Mannheim">>, module_id, drill_id, "", 3, t)
        EXCEPT !.state = state]
SessionPool ==
    {PoolSession("martin", "A1", "A1_D1", 1, "done"),
     PoolSession("martin", "A2", "A2_D1", 2, "active"),
     PoolSession("christoph", "A1", "A1_D1", 3, "active"),
     PoolSession("martin", "A1", "A1_Q1", 4, "active")}

RECURSIVE StoreAll(_)
StoreAll(S) ==
    IF S = {} THEN <<>>
    ELSE WriteFile(StoreAll(S \ {CHOOSE x \in S : TRUE}),
                   (CHOOSE x \in S : TRUE).session_id, CHOOSE x \in S : TRUE)

ListInit ==
    /\ \E S \in SUBSET SessionPool, broken \in BOOLEAN :
          files = IF broken THEN WriteFile(StoreAll(S), <<"broken">>, Corrupt) ELSE StoreAll(S)
    /\ dirs \in {{}, {"sessions"}}
    /\ files # <<>> => "sessions" \in dirs
    /\ ret = <<>>
    /\ now = 1
    /\ browser = [u \in {"martin"} |-> [ss |-> [force_new_session |-> FALSE,
                        show_post_form |-> FALSE, quiz |-> <<>>], rendered |-> {}, rerun |-> FALSE]]
    /\ lastRun = [u \in {"martin"} |-> NoRun]
    /\ creates = 0
    /\ SubmissionsIdle /\ ObservationsIdle /\ CacheIdle
    /\ dataFiles = [f \in {"curriculum.json"} |-> Curriculum]

\* list_sessions(sessions_dir, user, module_id) is called.
ListSessions ==
    \E user \in {"martin", "christoph", NoFilter}, module_id \in {"A1", "A2", NoFilter} :
        /\ ret' = [k \in {"list_sessions"} |->
                     [user |-> user, module_id |-> module_id,
                      value |-> list_sessions("sessions" \in dirs, files, user, module_id)]]
        /\ UNCHANGED <<files, dirs, now, browser, lastRun, creates, subs, subLog, obs, obsLog,
                       cache, lastRefresh, dataFiles>>

ListNext == ListSessions

SpecList == ListInit /\ [][ListNext]_vars

\* The stored sessions that can be read and pass the filters of the call.
Matching(user, module_id) ==
    {files[f] : f \in {g \in DOMAIN files :
        /\ files[g] # Corrupt
        /\ (user = NoFilter \/ files[g].user = user)
        /\ (module_id = NoFilter \/ files[g].module_id = module_id)}}

(***************************************************************************)
(* C11: list_sessions returns exactly the readable stored sessions that    *)
(* pass the user and module filters, each once, ordered by created_at      *)
(* descending; an unreadable file is skipped and the others are returned.  *)
(***************************************************************************)
C11_ListIsFilteredAndSorted ==
    "list_sessions" \in DOMAIN ret =>
        /\ {ret["list_sessions"].value[i] : i \in 1..Len(ret["list_sessions"].value)}
              = Matching(ret["list_sessions"].user, ret["list_sessions"].module_id)
        /\ Len(ret["list_sessions"].value)
              = Cardinality(Matching(ret["list_sessions"].user, ret["list_sessions"].module_id))
        /\ \A i, j \in 1..Len(ret["list_sessions"].value) :
              i < j => ret["list_sessions"].value[i].created_at
                          >= ret["list_sessions"].value[j].created_at

\* A call filtered by user and module returned two sessions while the
\* directory also held an unreadable file, a session of another user and a
\* session of another module.
C11_Witness ==
    /\ "list_sessions" \in DOMAIN ret
    /\ ret["list_sessions"].user = "martin" /\ ret["list_sessions"].module_id = "A1"
    /\ Len(ret["list_sessions"].value) = 2
    /\ <<"broken">> \in DOMAIN files
    /\ Cardinality(DOMAIN files) = 5

(***************************************************************************)
(* load_all_submissions and load_all_observations over stored directories  *)
(***************************************************************************)
\* A directory holding the files named in S, with the contents of pool.
Holding(pool, S) == [f \in S |-> pool[f]]

\* A file as an earlier version of the app left it: stamped "timestamp".
LegacySubmission(user, away, mood, t) == Update(Payload(user, away, mood), [timestamp |-> t])

\* Submission files: three written by save_submission at times 1, 2, 3; a
\* second file for the key of the first with a later "timestamp"; a second
\* file for the key of the second with an earlier submitted_at; an empty
\* dict; a file that is not JSON.
SubmissionPool ==
    Update(save_submission(save_submission(save_submission(<<>>,
                Payload(<<"m", "artin">>, <<"Adler", " ", "Mannheim">>, 1), 1),
                Payload(<<"c", "hristoph">>, <<"Adler", " ", "Mannheim">>, 1), 2),
                Payload(<<"m", "artin">>, <<"Koelner", " ", "Haie">>, 1), 3),
           [f \in {<<"copy_1.json">>, <<"copy_2.json">>, <<"empty.json">>, <<"broken.json">>} |->
                CASE f = <<"copy_1.json">> ->
                        LegacySubmission(<<"m", "artin">>, <<"Adler", " ", "Mannheim">>, 5, 2)
                  [] f = <<"copy_2.json">> ->
                        Stamped(Payload(<<"c", "hristoph">>, <<"Adler", " ", "Mannheim">>, 5), 1)
                  [] f = <<"empty.json">> -> EmptyDict
                  [] OTHER -> Corrupt])

\* An observation file of the old format: one period per file.
OldObservation(username, period, answers, t) == Observation(username, period, answers, t)

\* Observation files: one written by save_observation (period 2 at time 1,
\* period 1 at time 2); old-format files of the same game with a later
\* period 2, an earlier period 1, a period 2 of equal time; an old-format
\* file of christoph; a file with neither "periods" nor "period"; a file
\* that is not JSON.
ObservationPool ==
    Update(save_observation(save_observation(<<>>,
                Observation("martin", 2, [triangle_rating |-> 2], 1), 1),
                Observation("martin", 1, [triangle_rating |-> 2], 2), 2),
           [f \in {<<"old_a.json">>, <<"old_b.json">>, <<"old_c.json">>, <<"old_d.json">>,
                    <<"other.json">>, <<"broken.json">>} |->
                CASE f = <<"old_a.json">> -> OldObservation("martin", 2, [triangle_rating |-> 4], 3)
                  [] f = <<"old_b.json">> -> OldObservation("martin", 1, [triangle_rating |-> 4], 1)
                  [] f = <<"old_c.json">> -> OldObservation("martin", 2, [triangle_rating |-> 5], 3)
                  [] f = <<"old_d.json">> -> OldObservation("christoph", 3, [triangle_rating |-> 4], 1)
                  [] f = <<"other.json">> ->
                        [user |-> "otso", game |-> Observation("otso", 1, <<>>, 1).game]
                  [] OTHER -> Corrupt])

\* The files that do not load come together or not at all.
Unloadable == {<<"empty.json">>, <<"other.json">>, <<"broken.json">>}
StoredChoices(pool) ==
    {S \cup J : S \in SUBSET (DOMAIN pool \ Unloadable),
                J \in {{}, DOMAIN pool \cap Unloadable}}

StoredInit ==
    /\ \/ /\ \E S \in StoredChoices(SubmissionPool) : subs = Holding(SubmissionPool, S)
          /\ obs = <<>>
       \/ /\ \E S \in StoredChoices(ObservationPool) : obs = Holding(ObservationPool, S)
          /\ subs = <<>>
    /\ dirs = {"submissions", "observations"}
    /\ ret = <<>>
    /\ now = 1
    /\ TrainerIdle /\ CacheIdle
    /\ subLog = <<>> /\ obsLog = <<>>
    /\ dataFiles = [f \in {"curriculum.json"} |-> Curriculum]

StoredNext == CallLoadAllSubmissions \/ CallLoadAllObservations

SpecStored == StoredInit /\ [][StoredNext]_vars

\* The stored submissions that load: readable and not empty.
LoadableSubs == {f \in DOMAIN subs : subs[f] # Corrupt /\ subs[f] # EmptyDict}

\* The (user, date, home, away) of a stored submission or of a result entry.
KeyOf(x) == <<x.user, x.game.date, x.game.home, x.game.away>>

(***************************************************************************)
(* C12: the result of load_all_submissions has exactly one entry for each  *)
(* (user, date, home, away) among the stored submissions, and that entry   *)
(* is a stored submission of the key whose timestamp (submitted_at when    *)
(* there is no timestamp) is the greatest of the key's submissions.        *)
(***************************************************************************)
C12_LatestPerUserAndGame ==
    "load_all_submissions" \in DOMAIN ret =>
        /\ Len(ret["load_all_submissions"].value)
              = Cardinality({KeyOf(subs[f]) : f \in LoadableSubs})
        /\ \A f \in LoadableSubs :
              \E i \in 1..Len(ret["load_all_submissions"].value) :
                  KeyOf(ret["load_all_submissions"].value[i]) = KeyOf(subs[f])
        /\ \A i \in 1..Len(ret["load_all_submissions"].value) :
              \E f \in LoadableSubs :
                  /\ ret["load_all_submissions"].value[i] = Update(subs[f], [_filename |-> f])
                  /\ \A g \in LoadableSubs :
                        KeyOf(subs[g]) = KeyOf(subs[f]) => StampOf(subs[g]) <= StampOf(subs[f])

\* The loader was called on a directory in which one key has a second file
\* with a later "timestamp", another key a second file with an earlier
\* submitted_at, and an empty and an unreadable file lie beside them.
C12_Witness ==
    /\ "load_all_submissions" \in DOMAIN ret
    /\ DOMAIN subs = DOMAIN SubmissionPool
    /\ Len(ret["load_all_submissions"].value) = 3

\* The stored observations that load and have "periods" or "period".
LoadableObs ==
    {f \in DOMAIN obs : /\ obs[f] # Corrupt /\ obs[f] # EmptyDict
                        /\ ("periods" \in DOMAIN obs[f] \/ "period" \in DOMAIN obs[f])}

\* The period records stored for a (user, game) in either format.
StoredRecords(k) ==
    UNION {IF "periods" \in DOMAIN obs[f]
           THEN {obs[f].periods[p] : p \in DOMAIN obs[f].periods}
           ELSE {[period |-> obs[f].period, timestamp |-> obs[f].timestamp,
                  answers |-> obs[f].answers]} :
           f \in {g \in LoadableObs : <<obs[g].user, obs[g].game>> = k}}

JustClosed(u) ==
    /\ lastRun[u].click \in {CancelBtn, SaveNotesBtn, CompleteBtn}
    /\ lastRun[u].wrote
    /\ browser[u].rerun

(***************************************************************************)
(* C14: a run renders a session as the active session only if the file of  *)
(* that session read in that run has state "active"; and the run that      *)
(* follows the completion or cancellation of a session renders the setup   *)
(* form, not a session.                                                    *)
(***************************************************************************)
C14_ClosedSessionNotRendered ==
    [][\A u \in Users :
         /\ lastRun'[u].view # None =>
               /\ lastRun'[u].view.session_id \in DOMAIN files
               /\ files[lastRun'[u].view.session_id] = lastRun'[u].view
               /\ lastRun'[u].view.state = "active"
         /\ JustClosed(u) =>
               /\ lastRun'[u].view = None
               /\ SetupSubmit \in browser'[u].rendered]_vars

\* A session was closed and the run after it rendered the setup form.
C14_Witness ==
    \E u \in Users :
        /\ lastRun[u].view = None
        /\ lastRun[u].click = NoClick
        /\ SetupSubmit \in browser[u].rendered
        /\ \E sid \in DOMAIN files :
              files[sid].user = u /\ files[sid].state \in {"done", "cancelled"}

(***************************************************************************)
(* C15: with one browser session per user, at most one stored session of a *)
(* user is active, and the setup form is on the page only while the user   *)
(* has no active session.                                                  *)
(***************************************************************************)
C15_OneActivePerUser ==
    \A u \in Users :
        /\ Cardinality(ActiveOf(u)) <= 1
        /\ SetupSubmit \in browser[u].rendered => ActiveOf(u) = {}

\* The user has an active session and an earlier one that was closed.
C15_Witness ==
    \E u \in Users : \E f, g \in DOMAIN files :
        /\ files[f].user = u /\ files[f].state = "active"
        /\ files[g].user = u /\ files[g].state \in {"done", "cancelled"}
        /\ files[g].created_at < files[f].created_at

(***************************************************************************)
(* C17: the POST completion section is on the page of an active session    *)
(* only if the POST button was pressed last for that session.              *)
(***************************************************************************)
C17_PostSectionOfThisSession ==
    \A u \in Users :
        CompleteBtn \in browser[u].rendered =>
            /\ lastRun[u].view # None
            /\ lastRun[u].postFor = <<lastRun[u].view.session_id, lastRun[u].view.created_at>>

(***************************************************************************)
(* Two browser sessions (tabs) of one user.  Streamlit runs the script of  *)
(* each browser session in a thread of its own, so two runs interleave at  *)
(* their file operations: a run reads the active session when it starts    *)
(* (lines 37-49) and writes the copy it holds when it saves the check-in   *)
(* (lines 351-354) or cancels (lines 218-224); the completion reads the    *)
(* file again before it writes (lines 244-248, 253-257).                   *)
(***************************************************************************)
Tabs == {"tab1", "tab2"}
TabUser == "martin"

\* The session both tabs work on, created before they open.
TabSession ==
    NewSession(TabUser, "2026-01-02", "DEL", <<"ERC", " ", "Ingolstadt">>,
               <<"Adler", " ", "Mannheim">>, "A1", "A1_D1", "System-Reads verbessern", 3, 0)

TabsInit ==
    /\ files = create_session(<<>>, TabSession)
    /\ dirs = {"sessions"}
    /\ now = 1
    /\ browser = [tab \in Tabs |-> [held |-> None]]
    /\ lastRun = [tab \in Tabs |-> [click |-> NoClick, closed |-> {}, checkins |-> {}]]
    /\ creates = 1
    /\ SubmissionsIdle /\ ObservationsIdle /\ CacheIdle /\ LoaderIdle

\* What a step of a run leaves: the session directory, the copy the run
\* holds, and the run's entry in the log.
TabStep(tab, dir, held, log) ==
    /\ files' = dir
    /\ now' = IF dir # files THEN now + 1 ELSE now
    /\ browser' = [browser EXCEPT ![tab].held = held]
    /\ lastRun' = [lastRun EXCEPT ![tab] = log]
    /\ UNCHANGED <<dirs, creates>>
    /\ SubmissionsFrame /\ ObservationsFrame /\ CacheFrame /\ LoaderFrame

\* Lines 37-49: a run starts and reads the user's active session.
RunLoads(tab) ==
    /\ browser[tab].held = None
    /\ TabStep(tab, files, Reloaded(files, get_active_session(TRUE, files, TabUser)),
               [lastRun[tab] EXCEPT !.click = NoClick])

\* The run ends without writing.
RunEnds(tab) ==
    /\ browser[tab].held # None
    /\ TabStep(tab, files, None, lastRun[tab])

\* Lines 351-354: the run saves a check-in into the copy it holds.
RunSavesCheckin(tab) ==
    \E phase \in {"P1", "P2"}, v \in {2, 4} :
        /\ browser[tab].held # None
        /\ now < MaxClock
        /\ TabStep(tab,
                   save_session(files, add_checkin(browser[tab].held, phase,
                                                   [triangle_rating |-> v], <<>>, <<>>, now), now),
                   None,
                   [lastRun[tab] EXCEPT
                        !.click = W("period_checkin", phase, "A1_D1"),
                        !.checkins = @ \cup {<<browser[tab].held.session_id,
                                                [phase |-> phase, timestamp |-> now,
                                                 answers |-> [triangle_rating |-> v],
                                                 feedback |-> <<>>, next_task |-> <<>>]>>}])

\* Lines 218-224: the run cancels the copy it holds.
RunCancels(tab) ==
    /\ browser[tab].held # None
    /\ now < MaxClock
    /\ TabStep(tab,
               save_session(files, [browser[tab].held EXCEPT !.state = "cancelled"], now),
               None,
               [lastRun[tab] EXCEPT !.click = CancelBtn,
                                    !.closed = @ \cup {browser[tab].held.session_id}])

\* Lines 253-261: the run loads the file again, completes and saves it.
RunCompletes(tab) ==
    /\ browser[tab].held # None
    /\ now < MaxClock
    /\ load_session(files, browser[tab].held.session_id) # None
    /\ TabStep(tab,
               save_session(files,
                            complete_session(load_session(files, browser[tab].held.session_id),
                                             "", "", "", 3, now), now),
               None,
               [lastRun[tab] EXCEPT !.click = CompleteBtn,
                                    !.closed = @ \cup {browser[tab].held.session_id}])

TabsNext ==
    \E tab \in Tabs :
        \/ RunLoads(tab) \/ RunEnds(tab) \/ RunSavesCheckin(tab)
        \/ RunCancels(tab) \/ RunCompletes(tab)

SpecTabs == TabsInit /\ [][TabsNext]_vars

(***************************************************************************)
(* C16: when runs of two tabs interleave, a session that a run completed   *)
(* or cancelled stays closed, and every check-in a run saved is in the     *)
(* session file.                                                           *)
(***************************************************************************)
C16_NoLostUpdate ==
    \A tab \in Tabs :
        /\ \A sid \in lastRun[tab].closed : files[sid].state \in {"done", "cancelled"}
        /\ \A c \in lastRun[tab].checkins :
              \E i \in 1..Len(files[c[1]].checkins) : files[c[1]].checkins[i] = c[2]

(***************************************************************************)
(* C18: a step that completes a session sets its state to "done" and       *)
(* replaces its POST block by summary, unclear, next_module, helpfulness   *)
(* and timestamp; session_id, user, game, module_id, drill_id, the PRE     *)
(* block and the check-in list stay as they are in the file, so every      *)
(* check-in saved before the completion is in the file after it, also the  *)
(* ones another tab saved after the completing tab had opened the session. *)
(***************************************************************************)
C18_CompletionKeepsTheRest ==
    [][\A sid \in DOMAIN files :
          (files[sid].state # "done" /\ files'[sid].state = "done") =>
              /\ files'[sid] = [files[sid] EXCEPT
                                   !.state = "done",
                                   !.post = files'[sid].post,
                                   !.updated_at = now]
              /\ DOMAIN files'[sid].post =
                     {"summary", "unclear", "next_module", "helpfulness", "timestamp"}
              /\ files'[sid].post.timestamp = now]_vars

\* A tab completed the session after the other tab had saved a check-in,
\* and the check-in is in the completed session.
C18_Witness ==
    \E tab, other \in Tabs :
        /\ tab # other
        /\ lastRun[tab].click = CompleteBtn
        /\ TabSession.session_id \in lastRun[tab].closed
        /\ lastRun[other].checkins # {}
        /\ files[TabSession.session_id].state = "done"
        /\ files[TabSession.session_id].post # EmptyDict
        /\ \A c \in lastRun[other].checkins :
              \E i \in 1..Len(files[c[1]].checkins) : files[c[1]].checkins[i] = c[2]

(***************************************************************************)
(* C19: a step that adds a check-in to a stored session appends exactly    *)
(* one check-in (phase, timestamp, answers, feedback, next_task) at the    *)
(* end of the list: the earlier check-ins keep content and order, the list *)
(* grows by one, and state, game, PRE and POST block stay as they are.     *)
(***************************************************************************)
C19_CheckinIsAppended ==
    [][\A sid \in DOMAIN files :
          (/\ files'[sid].created_at = files[sid].created_at
           /\ files'[sid].checkins # files[sid].checkins) =>
              /\ Len(files'[sid].checkins) = Len(files[sid].checkins) + 1
              /\ SubSeq(files'[sid].checkins, 1, Len(files[sid].checkins))
                     = files[sid].checkins
              /\ LET c == files'[sid].checkins[Len(files'[sid].checkins)]
                 IN  /\ DOMAIN c = {"phase", "timestamp", "answers", "feedback", "next_task"}
                     /\ c.phase \in {"P1", "P2", "P3"}
                     /\ c.timestamp = now
              /\ files'[sid] = [files[sid] EXCEPT
                                   !.checkins = files'[sid].checkins,
                                   !.updated_at = now]]_vars

\* A session with a second check-in behind an earlier one.
C19_Witness ==
    \E sid \in DOMAIN files :
        /\ Len(files[sid].checkins) = 2
        /\ files[sid].checkins[1].timestamp < files[sid].checkins[2].timestamp
        /\ files[sid].state = "active"
        /\ files[sid].updated_at = files[sid].checkins[2].timestamp

(***************************************************************************)
(* The trainer page over a session that is already stored when the browser *)
(* session opens: an active session of the user for a check-in drill, a    *)
(* quiz, a drill whose type has no renderer, a drill without questions, or *)
(* a drill the curriculum does not hold (any more).                        *)
(***************************************************************************)
StoredDrills ==
    {<<"A1", "A1_D1">>, <<"A1", "A1_Q1">>, <<"A3", "A3_V1">>, <<"A3", "A3_E1">>,
     <<"A1", "A1_D9">>}

DrillInit ==
    /\ \E md \in StoredDrills :
          files = create_session(<<>>,
                      NewSession("martin", "2026-01-02", "DEL", <<"ERC", " ", "Ingolstadt">>,
                                 <<"Adler", " ", "Mannheim">>, md[1], md[2],
                                 "System-Reads verbessern", 3, 0))
    /\ dirs = {"sessions"}
    /\ now = 1
    /\ browser = [u \in Users |-> InitBrowser]
    /\ lastRun = [u \in Users |-> NoRun]
    /\ creates = 1
    /\ SubmissionsIdle /\ ObservationsIdle /\ CacheIdle /\ LoaderIdle

SpecDrill == DrillInit /\ [][Next]_vars

\* The ways a run leaves the phase section without answers of the drill.
NoAnswers ==
    {"pre", "drill_not_found", "not_registered", "no_questions", "not_submitted"}

Rule(field, operator, value, feedback, next_task) ==
    [condition |-> [field |-> field, operator |-> operator, value |-> value],
     feedback |-> feedback, next_task |-> next_task]

\* Rules of every operator, with and without texts, with the placeholder
\* behind "P" and on its own, with an unknown operator and without one.
RulePool ==
    {Rule("triangle_rating", "<=", 2, <<"Dreiecke", "instabil">>,
          <<"Achte", "in", "P", "{next_period}", "auf", "Center">>),
     Rule("triangle_rating", ">=", 4, <<"Stark">>, <<>>),
     Rule("triangle_rating", "==", 3, <<>>, <<"Drittel", "{next_period}", "beobachten">>),
     Rule("triangle_rating", "!=", 3, <<"Auffaellig">>, <<"Weiter">>),
     Rule("gap_rating", "<", 3, <<"Luecken">>, <<"Gap", "in", "P", "{next_period}">>),
     Rule("gap_rating", ">", 3, <<"Kompakt">>, <<>>),
     Rule("triangle_rating", "~=", 3, <<"nie">>, <<"nie">>),
     [condition |-> [field |-> "triangle_rating", value |-> 3],
      feedback |-> <<"nie">>, next_task |-> <<"nie">>]}

\* The answers of a check-in: gap_rating is shown to one of the users only.
AnswerPool ==
    {[triangle_rating |-> v, gap_rating |-> w] : v \in {2, 3, 4}, w \in {1, 5}}
        \cup {[triangle_rating |-> v] : v \in {2, 3, 4}}

PhasePool == {"PRE", "P1", "P2", "P3", "P0", "P9", ""}

\* The rule lists of at most MaxRules rules.
RuleLists == UNION {[1..n -> RulePool] : n \in 0..MaxRules}

\* The arguments of the call are drawn before it.
RulesInit ==
    /\ \E answers \in AnswerPool, rules \in RuleLists, phase \in PhasePool :
          ret = [k \in {"arguments"} |->
                    [answers |-> answers, rules |-> rules, phase |-> phase]]
    /\ dirs = {}
    /\ now = 1
    /\ TrainerIdle /\ SubmissionsIdle /\ ObservationsIdle /\ CacheIdle
    /\ dataFiles = [f \in {"curriculum.json"} |-> Curriculum]

\* What a call hands back: the returned pair, or the exception that left it.
Evaluated(r) == IF r.raised THEN Raise ELSE r.texts

\* evaluate_coaching_rules(answers, rules, phase) is called.
EvaluateRules ==
    /\ "arguments" \in DOMAIN ret
    /\ LET answers == ret["arguments"].answers
           rules == ret["arguments"].rules
           phase == ret["arguments"].phase
       IN  ret' = [k \in {"evaluate_coaching_rules"} |->
                     [answers |-> answers, rules |-> rules, phase |-> phase,
                      value |-> Evaluated(evaluate_coaching_rules(answers, rules, phase))]]
    /\ UNCHANGED <<files, dirs, now, browser, lastRun, creates, subs, subLog, obs, obsLog,
                   cache, lastRefresh, dataFiles>>

RulesNext == EvaluateRules

SpecRules == RulesInit /\ [][RulesNext]_vars

\* The condition c holds for the answers: the answer of the field compared
\* with the value by the operator (no answer is different from every value
\* and stands in no order to it).
Holds(answers, c) ==
    /\ "operator" \in DOMAIN c
    /\ CASE c.operator = "==" -> c.field \in DOMAIN answers /\ answers[c.field] = c.value
         [] c.operator = "!=" -> c.field \notin DOMAIN answers \/ answers[c.field] # c.value
         [] c.operator = "<=" -> c.field \in DOMAIN answers /\ answers[c.field] <= c.value
         [] c.operator = ">=" -> c.field \in DOMAIN answers /\ answers[c.field] >= c.value
         [] c.operator = "<"  -> c.field \in DOMAIN answers /\ answers[c.field] < c.value
         [] c.operator = ">"  -> c.field \in DOMAIN answers /\ answers[c.field] > c.value
         [] OTHER -> FALSE

\* The rules whose condition holds, in rule order.
HoldingRules(answers, rules) == SelectSeq(rules, LAMBDA r : Holds(answers, r.condition))

\* The non-empty texts joined with a blank line.
JoinedTexts(texts) == Join(SelectSeq(texts, LAMBDA x : x # <<>>))

(***************************************************************************)
(* C21: every call of evaluate_coaching_rules returns, as feedback the     *)
(* feedback texts and as next_task the next_task texts of exactly the      *)
(* rules whose condition holds, in rule order, joined with a blank line,   *)
(* empty texts left out; both are empty when no rule matches.              *)
(***************************************************************************)
C21_MatchingRulesJoined ==
    "evaluate_coaching_rules" \in DOMAIN ret =>
        LET call == ret["evaluate_coaching_rules"]
            hit == HoldingRules(call.answers, call.rules)
        IN  /\ call.value # Raise
            /\ call.value.feedback = JoinedTexts([k \in 1..Len(hit) |-> hit[k].feedback])
            /\ call.value.next_task =
                   JoinedTexts([k \in 1..Len(hit) |-> NextTaskText(hit[k].next_task, call.phase)])
            /\ hit = <<>> => call.value.feedback = <<>> /\ call.value.next_task = <<>>

\* The next_task text with the reference to the next period replaced: by
\* the number of the following period in P1 and P2, by "naechste Session"
\* in every other phase.
NextPeriodReplaced(nt, phase) ==
    IF phase \in {"P1", "P2"}
    THEN Replace(nt, "{next_period}", IF phase = "P1" THEN "2" ELSE "3")
    ELSE Replace(ReplacePair(nt, "P", "{next_period}", "naechste Session"),
                 "{next_period}", "naechste Session")

(***************************************************************************)
(* C22: the next_task a call of evaluate_coaching_rules returns holds no   *)
(* "{next_period}" any more: in P1 and P2 the placeholder is replaced by   *)
(* the number of the following period, in every other phase the reference  *)
(* to the next period is replaced by "naechste Session".                   *)
(***************************************************************************)
C22_PlaceholderReplaced ==
    ("evaluate_coaching_rules" \in DOMAIN ret
        /\ ret["evaluate_coaching_rules"].value # Raise) =>
        LET call == ret["evaluate_coaching_rules"]
            hit == HoldingRules(call.answers, call.rules)
        IN  /\ \A i \in 1..Len(call.value.next_task) :
                  call.value.next_task[i] # "{next_period}"
            /\ call.value.next_task =
                   JoinedTexts([k \in 1..Len(hit) |->
                                   NextPeriodReplaced(hit[k].next_task, call.phase)])

====
